---- MODULE Spec2Model ----
\* Back-pagination of a room's event cache (matrix-sdk, event_cache/pagination.rs):
\* RoomPagination::run_backwards_once / run_backwards_until / run_backwards_impl and
\* RoomPagination::get_or_wait_for_token, running concurrently with the sync feeder
\* and with resets of the room state.  A second, independent part models the
\* login by QR code (authentication/oidc/qrcode/login.rs): the steps of the
\* LoginWithQrCode future and the LoginProgress it publishes.
EXTENDS Integers, Sequences, FiniteSets, TLC

\* ---------------------------------------------------------------- bounds
NumEvents == 3
NumTokens == 2
MaxBatch == 2
MaxChunks == 3
MaxRequested == 1
MaxUntil == 2
NumCheckCodes == 2
NumUserCodes == 2

Events == 1..NumEvents
Tokens == 1..NumTokens
Procs == {"p1", "p2"}

\* Option::None for a token, a chunk identifier and a position.
NoToken == 0
NoId == 0
NoPos == <<>>

\* The check codes of a secure channel and the user codes of a device
\* authorization; NoCode where a LoginProgress carries none.
CheckCodes == 1..NumCheckCodes
UserCodes == 1..NumUserCodes
NoCode == 0

\* No task holds the lock of `state`.
NoHolder == "none"

VARIABLES
  chunks,      \* RoomEvents: the in-memory LinkedChunks, oldest chunk first
  disk,        \* chunks of the PersistentStore older than chunks[1], not loaded yet
  waited,      \* RoomEventCacheState::waited_for_initial_prev_token
  permit,      \* pagination_batch_token_notifier holds a notification
  paginator,   \* the room's Paginator: [state, prev] (prev = prev_batch_token)
  pc,          \* where each task is
  op,          \* the public method a task is running
  waitArg,     \* wait_time of a get_or_wait_for_token call
  numReq,      \* num_requested_events of run_backwards_until
  tokres,      \* the PaginationToken a task's get_or_wait_for_token returned
  resp,        \* the PaginationResult a task's network call returned
  acc,         \* `events` accumulated by run_backwards_until
  out,         \* what a task's last attempt returned
  didWait,     \* the task's current get_or_wait_for_token call waited on the notifier
  hWaitDone,   \* history: a notifier wait has ended since the last reset
  hEverWaitDone, \* history: a notifier wait has ended, ever
  lock,        \* the task that holds the writer lock of `state` from one step to the next
  login_pc,    \* LoginWithQrCode: where the login future is
  state,       \* LoginWithQrCode::state, the observable LoginProgress
  updates,     \* history: the values given to state.set(), in order
  sent_json,   \* the QrAuthMessages the login sent over the secure channel, in order
  received_json, \* the QrAuthMessages the login received from the other device, in order
  auth_grant_response, \* the user code of the device authorization response
  tokens_set,  \* set_session_tokens was called
  result       \* what the login future returned

vars == <<chunks, disk, waited, permit, paginator, pc, op, waitArg, numReq,
          tokres, resp, acc, out, didWait, hWaitDone, hEverWaitDone, lock,
          login_pc, state, updates, sent_json, received_json,
          auth_grant_response, tokens_set, result>>

loginVars == <<login_pc, state, updates, sent_json, received_json,
               auth_grant_response, tokens_set, result>>

roomVars == <<chunks, disk, waited>>
histVars == <<hWaitDone, hEverWaitDone>>

\* ---------------------------------------------------------------- sequences
Reverse(s) == [i \in 1..Len(s) |-> s[Len(s) + 1 - i]]

Range(s) == {s[i] : i \in 1..Len(s)}

RECURSIVE Flatten(_)
Flatten(ss) == IF ss = <<>> THEN <<>> ELSE Head(ss) \o Flatten(Tail(ss))

\* Server batches: /messages with dir=b answers newest first, an event's number
\* standing for its origin timestamp.
Batches ==
  {s \in UNION {[1..k -> Events] : k \in 0..MaxBatch} :
     \A i \in 1..Len(s) - 1 : s[i] > s[i + 1]}

\* ---------------------------------------------------------------- LinkedChunks
\* A chunk is a Gap carrying a prev_token or a run of items. Chunk identifiers and
\* positions are read and used inside one writer-lock section only, so a chunk's
\* identifier is modelled by its place in the sequence at the time it is read, and
\* every operation returns the positions it yields in the structure it leaves.
GapChunk(t) == [gap |-> TRUE, tok |-> t, items |-> <<>>]

ItemsChunk(evs) == [gap |-> FALSE, tok |-> NoToken, items |-> evs]

\* events(): every item, oldest first.
AllEvents(cs) == Flatten([i \in 1..Len(cs) |-> cs[i].items])

EventSet(cs) == Range(AllEvents(cs))

HasGap(cs) == \E i \in 1..Len(cs) : cs[i].gap

HasEvents(cs) == \E i \in 1..Len(cs) : ~cs[i].gap

AdjacentGaps(cs) == \E i \in 1..Len(cs) - 1 : cs[i].gap /\ cs[i + 1].gap

\* events().next(): the position of the oldest item.
FirstEventPos(cs) ==
  IF HasEvents(cs)
  THEN <<CHOOSE j \in 1..Len(cs) : ~cs[j].gap /\ \A k \in 1..j - 1 : cs[k].gap, 1>>
  ELSE NoPos

\* chunk_identifier(pred) with pred = "is a Gap whose prev_token is t":
\* the first match in chunk order.
chunk_identifier(cs, t) ==
  IF \E i \in 1..Len(cs) : cs[i].gap /\ cs[i].tok = t
  THEN CHOOSE j \in 1..Len(cs) :
         /\ cs[j].gap /\ cs[j].tok = t
         /\ \A k \in 1..j - 1 : ~(cs[k].gap /\ cs[k].tok = t)
  ELSE NoId

InsertAt(cs, i, c) == SubSeq(cs, 1, i - 1) \o <<c>> \o SubSeq(cs, i, Len(cs))

RemoveAt(cs, i) == SubSeq(cs, 1, i - 1) \o SubSeq(cs, i + 1, Len(cs))

\* The result of a LinkedChunks operation: ok = FALSE is a precondition violation,
\* which leaves the structure as it was.
OpResult(ok, cs, pos) == [ok |-> ok, chunks |-> cs, pos |-> pos]

ValidPos(cs, pos) ==
  /\ pos # NoPos
  /\ pos[1] \in 1..Len(cs)
  /\ ~cs[pos[1]].gap
  /\ pos[2] \in 1..Len(cs[pos[1]].items)

ValidGap(cs, gid) == gid \in 1..Len(cs) /\ cs[gid].gap

push_events(cs, evs) ==
  IF evs = <<>> THEN OpResult(TRUE, cs, NoPos)
  ELSE IF cs # <<>> /\ ~cs[Len(cs)].gap
  THEN OpResult(TRUE, [cs EXCEPT ![Len(cs)].items = @ \o evs], NoPos)
  ELSE OpResult(TRUE, Append(cs, ItemsChunk(evs)), NoPos)

push_gap(cs, t) ==
  IF cs # <<>> /\ cs[Len(cs)].gap
  THEN OpResult(FALSE, cs, NoPos)
  ELSE OpResult(TRUE, Append(cs, GapChunk(t)), NoPos)

insert_events_at(cs, evs, pos) ==
  IF ~ValidPos(cs, pos)
  THEN OpResult(FALSE, cs, NoPos)
  ELSE OpResult(TRUE,
         [cs EXCEPT ![pos[1]].items = SubSeq(@, 1, pos[2] - 1) \o evs
                                        \o SubSeq(@, pos[2], Len(@))],
         pos)

\* A Gap before pos, splitting the items chunk when pos is inside it.
InsertGap(cs, t, pos) ==
  IF pos[2] = 1
  THEN InsertAt(cs, pos[1], GapChunk(t))
  ELSE LET c == cs[pos[1]]
       IN SubSeq(cs, 1, pos[1] - 1)
            \o << ItemsChunk(SubSeq(c.items, 1, pos[2] - 1)),
                  GapChunk(t),
                  ItemsChunk(SubSeq(c.items, pos[2], Len(c.items))) >>
            \o SubSeq(cs, pos[1] + 1, Len(cs))

insert_gap_at_unchecked(cs, t, pos) ==
  IF ~ValidPos(cs, pos)
  THEN OpResult(FALSE, cs, NoPos)
  ELSE OpResult(TRUE, InsertGap(cs, t, pos), NoPos)

insert_gap_at(cs, t, pos) ==
  IF ~ValidPos(cs, pos) \/ AdjacentGaps(InsertGap(cs, t, pos))
  THEN OpResult(FALSE, cs, NoPos)
  ELSE OpResult(TRUE, InsertGap(cs, t, pos), NoPos)

replace_gap_at(cs, evs, gid) ==
  IF ~ValidGap(cs, gid)
  THEN OpResult(FALSE, cs, NoPos)
  ELSE IF evs = <<>>
  THEN OpResult(TRUE, RemoveAt(cs, gid), NoPos)
  ELSE OpResult(TRUE, [cs EXCEPT ![gid] = ItemsChunk(evs)], <<gid, 1>>)

remove_gap_at(cs, gid) ==
  IF ~ValidGap(cs, gid)
  THEN OpResult(FALSE, cs, NoPos)
  ELSE OpResult(TRUE, RemoveAt(cs, gid),
                IF gid < Len(cs) /\ ~cs[gid + 1].gap THEN <<gid, 1>> ELSE NoPos)

\* is_definitive_head of the oldest in-memory chunk: the store holds nothing older.
is_definitive_head(dsk) == dsk = <<>>

\* ---------------------------------------------------------------- deduplication
\* An event id is known when it is in memory or in the store.
Known(cs, dsk, e) == e \in EventSet(cs) \cup EventSet(dsk)

\* all_duplicates of collect_valid_and_duplicated_events.
AllDuplicates(cs, dsk, batch) == \A i \in 1..Len(batch) : Known(cs, dsk, batch[i])

KeptEventsNoDedup(cs, dsk, batch) == batch

\* `events` after the retain / clear of the duplicates.
KeptEvents(cs, dsk, batch) ==
  IF ~AllDuplicates(cs, dsk, batch)
  THEN SelectSeq(batch, LAMBDA e : ~Known(cs, dsk, e))
  ELSE <<>>

\* ---------------------------------------------------------------- tokens
TokNone == [kind |-> "None", tok |-> NoToken]

TokHitEnd == [kind |-> "HitEnd", tok |-> NoToken]

TokHasMore(t) == [kind |-> "HasMore", tok |-> t]

\* Not a PaginationToken: the call goes on to wait on the notifier.
MustWait == [kind |-> "Wait", tok |-> NoToken]

WaitArgs == {"None", "Zero", "Pos"}

get_latest_oldest(cs) ==
  IF HasGap(cs)
  THEN cs[CHOOSE i \in 1..Len(cs) : cs[i].gap /\ \A k \in 1..i - 1 : ~cs[k].gap].tok
  ELSE NoToken

\* get_latest: the prev_token of the first Gap met walking rchunks().
get_latest(cs) ==
  IF HasGap(cs)
  THEN cs[CHOOSE i \in 1..Len(cs) : cs[i].gap /\ \A k \in i + 1..Len(cs) : ~cs[k].gap].tok
  ELSE NoToken

ReadPhaseNoFlag(cs, flag, wait) ==
  IF get_latest(cs) # NoToken THEN TokHasMore(get_latest(cs))
  ELSE IF HasEvents(cs) THEN TokHitEnd
  ELSE IF wait = "None" THEN TokNone
  ELSE MustWait

ReadPhaseNoEarlyReturn(cs, flag, wait) ==
  IF get_latest(cs) # NoToken THEN TokHasMore(get_latest(cs))
  ELSE IF HasEvents(cs) THEN TokHitEnd
  ELSE IF flag THEN TokNone
  ELSE MustWait

ReadPhaseWaitFirst(cs, flag, wait) ==
  IF get_latest(cs) # NoToken THEN TokHasMore(get_latest(cs))
  ELSE IF wait # "None" /\ ~flag THEN MustWait
  ELSE IF HasEvents(cs) THEN TokHitEnd
  ELSE TokNone

\* get_or_wait_for_token under the reader lock, up to the decision to wait.
ReadPhase(cs, flag, wait) ==
  IF get_latest(cs) # NoToken THEN TokHasMore(get_latest(cs))
  ELSE IF HasEvents(cs) THEN TokHitEnd
  ELSE IF flag THEN TokNone
  ELSE IF wait = "None" THEN TokNone
  ELSE MustWait

AfterWaitStale(cs) == TokNone

\* get_or_wait_for_token after the wait, under the writer lock.
AfterWait(cs) ==
  IF get_latest(cs) # NoToken THEN TokHasMore(get_latest(cs))
  ELSE IF HasEvents(cs) THEN TokHitEnd
  ELSE TokNone

FlagAfterWaitIfNoToken(cs, flag) == flag \/ get_latest(cs) = NoToken

\* waited_for_initial_prev_token after the wait: set whatever the wait brought.
FlagAfterWait(cs, flag) == TRUE

\* ---------------------------------------------------------------- results
NoResp == [events |-> <<>>, hit_end |-> FALSE]

\* What an attempt returned. kind "outcome" is Ok(Some(BackPaginationOutcome
\* { events, reached_start })); sent: the attempt broadcast an UpdateTimelineEvents
\* with origin Pagination; via: the return it took ("start": StartOfTimeline,
\* "store": Events, "hitend": the HitEnd token, "network": the splice);
\* hit_end: the hit_end_of_timeline of the network call, if any; token: the
\* prev_token the network call used, if any.
Outcome(evs, rs, sent, via, hit_end, token) ==
  [kind |-> "outcome", events |-> evs, reached_start |-> rs, sent |-> sent,
   via |-> via, hit_end |-> hit_end, token |-> token]

NoOut ==
  [kind |-> "none", events |-> <<>>, reached_start |-> FALSE, sent |-> FALSE,
   via |-> "none", hit_end |-> FALSE, token |-> NoToken]

\* Ok(None): the caller's loop runs the attempt again.
Retry == [NoOut EXCEPT !.kind = "retry"]

\* Err(..), or the panic of an `expect`.
Failed == [NoOut EXCEPT !.kind = "err"]

\* The future of the call was dropped: its caller gets nothing.
Dropped == [NoOut EXCEPT !.kind = "dropped"]

\* ---------------------------------------------------------------- QR login: values
\* LoginProgress
Starting == [name |-> "Starting", code |-> NoCode]

EstablishingSecureChannel(check_code) ==
  [name |-> "EstablishingSecureChannel", code |-> check_code]

WaitingForToken(user_code) == [name |-> "WaitingForToken", code |-> user_code]

Done == [name |-> "Done", code |-> NoCode]

\* QrAuthMessage
Message(kind) == [kind |-> kind, reason |-> "none"]

LoginFailure(reason) == [kind |-> "LoginFailure", reason |-> reason]

NoMessage == Message("none")

\* LoginFailureReason, as far as the other device uses it here
PeerFailureReasons == {"UnsupportedProtocol", "DeviceNotFound", "UserCancelled"}

\* What the other device may answer.
PeerMessages ==
  {Message(k) : k \in {"LoginProtocolAccepted", "LoginSecrets", "LoginDeclined",
                       "LoginSuccess"}}
    \cup {LoginFailure(r) : r \in PeerFailureReasons}

\* DeviceCodeErrorResponseType of a failed token request; "none" is an error
\* that is not a token-request error.
TokenErrors == {"AccessDenied", "ExpiredToken", "SlowDown", "none"}

\* Output of the login future
Pending == [kind |-> "Pending", error |-> "none", reason |-> "none",
            expected |-> "none", received |-> NoMessage]

Ok == [Pending EXCEPT !.kind = "Ok"]

Err(error) == [Pending EXCEPT !.kind = "Err", !.error = error]

ErrLoginFailure(reason) == [Err("LoginFailure") EXCEPT !.reason = reason]

ErrUnexpectedMessage(expected, message) ==
  [Err("UnexpectedMessage") EXCEPT !.expected = expected, !.received = message]

ErrOauth(e) == [Err("Oauth") EXCEPT !.reason = e]

\* ---------------------------------------------------------------- initial states
\* A room is created empty, has received a limited sync (a Gap, then events), or
\* is reloaded from the store with its newest chunk in memory and the older ones
\* left on disk.
InitRooms ==
  { [chunks |-> <<>>, disk |-> <<>>],
    [chunks |-> <<GapChunk(1)>>, disk |-> <<>>],
    [chunks |-> <<GapChunk(1), ItemsChunk(<<1>>)>>, disk |-> <<>>],
    [chunks |-> <<ItemsChunk(<<2>>)>>, disk |-> <<ItemsChunk(<<1>>), GapChunk(1)>>],
    [chunks |-> <<ItemsChunk(<<3>>)>>, disk |-> <<ItemsChunk(<<1, 2>>)>>],
    [chunks |-> <<ItemsChunk(<<3>>)>>, disk |-> <<ItemsChunk(<<1>>), ItemsChunk(<<2>>)>>] }

Init ==
  /\ \E r \in InitRooms : chunks = r.chunks /\ disk = r.disk
  /\ waited = FALSE
  /\ permit = FALSE
  /\ paginator = [state |-> "Idle", prev |-> NoToken]
  /\ pc = [p \in Procs |-> "idle"]
  /\ op = [p \in Procs |-> "none"]
  /\ waitArg = [p \in Procs |-> "None"]
  /\ numReq = [p \in Procs |-> 0]
  /\ tokres = [p \in Procs |-> TokNone]
  /\ resp = [p \in Procs |-> NoResp]
  /\ acc = [p \in Procs |-> <<>>]
  /\ out = [p \in Procs |-> NoOut]
  /\ didWait = [p \in Procs |-> FALSE]
  /\ hWaitDone = FALSE
  /\ hEverWaitDone = FALSE
  /\ lock = NoHolder
  /\ login_pc = "establish_secure_channel"
  /\ state = Starting
  /\ updates = <<>>
  /\ sent_json = <<>>
  /\ received_json = <<>>
  /\ auth_grant_response = NoCode
  /\ tokens_set = FALSE
  /\ result = Pending

\* ---------------------------------------------------------------- the lock of `state`
\* state.read().await / state.write().await return: no task holds the writer lock.
\* A section that takes and drops the lock within one step leaves `lock` as it is.
LockFree == lock = NoHolder

\* ---------------------------------------------------------------- other writers
\* The sync feeder (and the tests' writers): with_events_mut(|e| e.push_gap(..)),
\* with or without a signal on the notifier.
SyncPushGap(t, signal) ==
  /\ LockFree
  /\ LET r == push_gap(chunks, t)
     IN /\ r.ok
        /\ Len(r.chunks) <= MaxChunks
        /\ chunks' = r.chunks
  /\ permit' = (permit \/ signal)
  /\ UNCHANGED <<disk, waited, paginator, pc, op, waitArg, numReq, tokres, resp, acc,
                 out, didWait>>
  /\ UNCHANGED histVars
  /\ UNCHANGED lock
  /\ UNCHANGED loginVars

\* with_events_mut(|e| e.push_events([event])) for an event newer than all the
\* room holds.
SyncPushEvents(e) ==
  /\ LockFree
  /\ \A k \in EventSet(chunks) \cup EventSet(disk) : k < e
  /\ LET r == push_events(chunks, <<e>>)
     IN /\ Len(r.chunks) <= MaxChunks
        /\ chunks' = r.chunks
  /\ UNCHANGED <<disk, waited, permit, paginator, pc, op, waitArg, numReq, tokres, resp,
                 acc, out, didWait>>
  /\ UNCHANGED histVars
  /\ UNCHANGED lock
  /\ UNCHANGED loginVars

FlagAfterResetToggled(flag) == ~flag

FlagAfterResetKept(flag) == flag

\* waited_for_initial_prev_token after a reset.
FlagAfterReset(flag) == FALSE

\* state.write().await.reset(): drops the events (memory and store) and
\* waited_for_initial_prev_token.
Reset ==
  /\ LockFree
  /\ chunks # <<>> \/ waited
  /\ chunks' = <<>>
  /\ disk' = <<>>
  /\ waited' = FlagAfterReset(waited)
  /\ hWaitDone' = FALSE
  /\ UNCHANGED <<permit, paginator, pc, op, waitArg, numReq, tokres, resp, acc, out,
                 didWait, hEverWaitDone, lock>>
  /\ UNCHANGED loginVars

\* ---------------------------------------------------------------- calls
\* A task takes a call when it is idle. The two tasks are interchangeable: the
\* second one is used only while the first one is busy.
CanStart(p) == pc[p] = "idle" /\ (p = "p2" => pc["p1"] # "idle")

\* A task calls get_or_wait_for_token(wait_time) directly.
StartToken(p, w) ==
  /\ CanStart(p)
  /\ pc' = [pc EXCEPT ![p] = "token_read"]
  /\ op' = [op EXCEPT ![p] = "token"]
  /\ waitArg' = [waitArg EXCEPT ![p] = w]
  /\ UNCHANGED <<permit, paginator, numReq, tokres, resp, acc, out, didWait>>
  /\ UNCHANGED roomVars
  /\ UNCHANGED histVars
  /\ UNCHANGED lock
  /\ UNCHANGED loginVars

\* A task calls run_backwards_once(batch_size).
StartOnce(p) ==
  /\ CanStart(p)
  /\ pc' = [pc EXCEPT ![p] = "load"]
  /\ op' = [op EXCEPT ![p] = "once"]
  /\ UNCHANGED <<permit, paginator, waitArg, numReq, tokres, resp, acc, out, didWait>>
  /\ UNCHANGED roomVars
  /\ UNCHANGED histVars
  /\ UNCHANGED lock
  /\ UNCHANGED loginVars

\* A task calls run_backwards_until(num_requested_events).
StartUntil(p, n) ==
  /\ CanStart(p)
  /\ pc' = [pc EXCEPT ![p] = "load"]
  /\ op' = [op EXCEPT ![p] = "until"]
  /\ numReq' = [numReq EXCEPT ![p] = n]
  /\ UNCHANGED <<permit, paginator, waitArg, tokres, resp, acc, out, didWait>>
  /\ UNCHANGED roomVars
  /\ UNCHANGED histVars
  /\ UNCHANGED lock
  /\ UNCHANGED loginVars

\* The caller has its result; the task is free for another call.
Finish(p) ==
  /\ pc[p] = "done"
  /\ pc' = [pc EXCEPT ![p] = "idle"]
  /\ op' = [op EXCEPT ![p] = "none"]
  /\ waitArg' = [waitArg EXCEPT ![p] = "None"]
  /\ numReq' = [numReq EXCEPT ![p] = 0]
  /\ tokres' = [tokres EXCEPT ![p] = TokNone]
  /\ acc' = [acc EXCEPT ![p] = <<>>]
  /\ out' = [out EXCEPT ![p] = NoOut]
  /\ didWait' = [didWait EXCEPT ![p] = FALSE]
  /\ UNCHANGED <<permit, paginator, resp>>
  /\ UNCHANGED roomVars
  /\ UNCHANGED histVars
  /\ UNCHANGED lock
  /\ UNCHANGED loginVars

\* The value a finished call returned to its caller.
Returned(p) ==
  IF op[p] = "until" /\ out[p].kind = "outcome"
  THEN [out[p] EXCEPT !.events = acc[p]]
  ELSE out[p]

\* ---------------------------------------------------------------- get_or_wait_for_token
\* Where a task goes when its get_or_wait_for_token call returns: a direct call
\* is over, run_backwards_impl goes on with the match at line 137.
AfterToken(p) == IF op[p] = "token" THEN "done" ELSE "token_done"

\* Lines 325-356: the reader-lock scope and the early return on wait_time = None.
TokenRead(p) ==
  /\ pc[p] = "token_read"
  /\ LockFree
  /\ LET r == ReadPhase(chunks, waited, waitArg[p])
     IN IF r = MustWait
        THEN /\ pc' = [pc EXCEPT ![p] = "waiting"]
             /\ didWait' = [didWait EXCEPT ![p] = TRUE]
             /\ UNCHANGED tokres
        ELSE /\ pc' = [pc EXCEPT ![p] = AfterToken(p)]
             /\ tokres' = [tokres EXCEPT ![p] = r]
             /\ didWait' = [didWait EXCEPT ![p] = FALSE]
  /\ UNCHANGED <<permit, paginator, op, waitArg, numReq, resp, acc, out>>
  /\ UNCHANGED roomVars
  /\ UNCHANGED histVars
  /\ UNCHANGED lock
  /\ UNCHANGED loginVars

\* Line 361: timeout(notified(), wait_time) ends because the notifier held or
\* received a notification.
WaitNotified(p) ==
  /\ pc[p] = "waiting"
  /\ permit
  /\ permit' = FALSE
  /\ pc' = [pc EXCEPT ![p] = "relock"]
  /\ UNCHANGED <<paginator, op, waitArg, numReq, tokres, resp, acc, out, didWait>>
  /\ UNCHANGED roomVars
  /\ UNCHANGED histVars
  /\ UNCHANGED lock
  /\ UNCHANGED loginVars

\* Line 361: the timeout elapses.
WaitTimeoutNever(p) ==
  /\ pc[p] = "waiting"
  /\ FALSE
  /\ UNCHANGED vars

WaitTimeout(p) ==
  /\ pc[p] = "waiting"
  /\ pc' = [pc EXCEPT ![p] = "relock"]
  /\ UNCHANGED <<permit, paginator, op, waitArg, numReq, tokres, resp, acc, out, didWait>>
  /\ UNCHANGED roomVars
  /\ UNCHANGED histVars
  /\ UNCHANGED lock
  /\ UNCHANGED loginVars

\* Lines 363-374: the writer lock after the wait.
TokenAfterWait(p) ==
  /\ pc[p] = "relock"
  /\ LockFree
  /\ waited' = FlagAfterWait(chunks, waited)
  /\ tokres' = [tokres EXCEPT ![p] = AfterWait(chunks)]
  /\ pc' = [pc EXCEPT ![p] = AfterToken(p)]
  /\ hWaitDone' = TRUE
  /\ hEverWaitDone' = TRUE
  /\ UNCHANGED <<chunks, disk, permit, paginator, op, waitArg, numReq, resp, acc,
                 out, didWait, lock>>
  /\ UNCHANGED loginVars

\* ---------------------------------------------------------------- run_backwards_impl
\* DEFAULT_WAIT_FOR_TOKEN_DURATION, three seconds: a positive wait.
DEFAULT_WAIT_FOR_TOKEN_DURATION == "Pos"

ReachedStartTrustNetwork(cs, dsk, hit_end) ==
  ~HasGap(cs) /\ (is_definitive_head(dsk) \/ hit_end)

\* Lines 289-297: the reached_start of a network attempt.
ReachedStart(cs, dsk, hit_end) ==
  ~HasGap(cs) /\ (IF cs # <<>> THEN is_definitive_head(dsk) ELSE hit_end)

ReversedEventsKeepOrder(events) == events

\* Lines 219-223: reversed_events, the kept events oldest first.
ReversedEvents(events) == Reverse(events)

StoresNewGapAlways(all_duplicates, new_gap) == new_gap # NoToken

\* Lines 266-279: the new Gap is stored only with a batch that brought a new event.
StoresNewGap(all_duplicates, new_gap) == ~all_duplicates /\ new_gap # NoToken

FillPriorGapKeptWhenDuplicated(cs, all_duplicates, reversed_events, gap_id) ==
  IF all_duplicates
  THEN OpResult(TRUE, cs, NoPos)
  ELSE replace_gap_at(cs, reversed_events, gap_id)

\* "There is a prior gap, let's replace it by new events!"
FillPriorGap(cs, all_duplicates, reversed_events, gap_id) ==
  IF all_duplicates
  THEN remove_gap_at(cs, gap_id)
  ELSE replace_gap_at(cs, reversed_events, gap_id)

\* Lines 156-308: the writer-lock section after the network call. token is the
\* prev_token the request used, batch the events of the response, new_gap the
\* paginator's prev_batch_token() read at line 179.
SpliceResult(cs, dsk, token, batch, new_gap, hit_end) ==
  LET prev_gap_id == IF token # NoToken THEN chunk_identifier(cs, token) ELSE NoId
      all_duplicates == AllDuplicates(cs, dsk, batch)
      events == KeptEvents(cs, dsk, batch)
      reversed_events == ReversedEvents(events)
      first_event_pos == FirstEventPos(cs)
      inserted ==
        IF prev_gap_id # NoId
        THEN FillPriorGap(cs, all_duplicates, reversed_events, prev_gap_id)
        ELSE IF first_event_pos # NoPos
        THEN insert_events_at(cs, reversed_events, first_event_pos)
        ELSE LET r == push_events(cs, reversed_events)
             IN [r EXCEPT !.pos = FirstEventPos(r.chunks)]
      gapped ==
        IF inserted.ok /\ StoresNewGap(all_duplicates, new_gap)
        THEN IF inserted.pos # NoPos
             THEN insert_gap_at(inserted.chunks, new_gap, inserted.pos)
             ELSE push_gap(inserted.chunks, new_gap)
        ELSE inserted
  IN IF token # NoToken /\ prev_gap_id = NoId
     THEN [status |-> "retry", chunks |-> cs, out |-> Retry]
     ELSE IF ~gapped.ok
     THEN \* an `expect` of the splice fails: the task panics inside with_events_mut
          [status |-> "panic", chunks |-> inserted.chunks, out |-> Failed]
     ELSE [status |-> "ok", chunks |-> gapped.chunks,
           out |-> Outcome(events, ReachedStart(gapped.chunks, dsk, hit_end),
                           gapped.chunks # cs, "network", hit_end, token)]

\* Lines 61-74 and 83-88: what the loops of run_backwards_until and
\* run_backwards_once do with the result o of one attempt.
NextPcRetryReturns(p, o) ==
  IF o.kind = "err" \/ o.kind = "retry" THEN "done"
  ELSE IF op[p] = "once" THEN "done"
  ELSE IF o.reached_start \/ Len(acc[p] \o o.events) >= numReq[p] THEN "done"
  ELSE "load"

NextPcErrorRetries(p, o) ==
  IF o.kind = "err" \/ o.kind = "retry" THEN "load"
  ELSE IF op[p] = "once" THEN "done"
  ELSE IF o.reached_start \/ Len(acc[p] \o o.events) >= numReq[p] THEN "done"
  ELSE "load"

NextPc(p, o) ==
  IF o.kind = "err" THEN "done"
  ELSE IF o.kind = "retry" THEN "load"
  ELSE IF op[p] = "once" THEN "done"
  ELSE IF o.reached_start \/ Len(acc[p] \o o.events) >= numReq[p] THEN "done"
  ELSE "load"

NextAccLast(p, o) ==
  IF o.kind = "outcome" /\ op[p] = "until" THEN o.events ELSE acc[p]

NextAcc(p, o) ==
  IF o.kind = "outcome" /\ op[p] = "until" THEN acc[p] \o o.events ELSE acc[p]

\* The attempt of task p ends with o.
Conclude(p, o) ==
  /\ out' = [out EXCEPT ![p] = o]
  /\ pc' = [pc EXCEPT ![p] = NextPc(p, o)]
  /\ acc' = [acc EXCEPT ![p] = NextAcc(p, o)]
  /\ tokres' = [tokres EXCEPT ![p] = TokNone]
  /\ waitArg' = [waitArg EXCEPT ![p] = "None"]
  /\ didWait' = [didWait EXCEPT ![p] = o.kind = "err" /\ didWait[p]]

\* The attempt of task p goes on with get_or_wait_for_token(Some(3 s)), line 135.
ToToken(p) ==
  /\ pc' = [pc EXCEPT ![p] = "token_read"]
  /\ waitArg' = [waitArg EXCEPT ![p] = DEFAULT_WAIT_FOR_TOKEN_DURATION]
  /\ UNCHANGED <<out, acc, tokres, didWait>>

StoreOutcomeEventsKeepOrder(items) == items

\* Lines 124-129: events.into_iter().rev().collect().
StoreOutcomeEvents(items) == Reverse(items)

\* Lines 103-131: load_more_events_backwards under the writer lock, held until
\* the end of the match. A Gap in memory is left to the network; otherwise the
\* nearest older chunk of the store, if any, becomes the first chunk.
Load(p) ==
  /\ pc[p] = "load"
  /\ LockFree
  /\ IF HasGap(chunks)
     THEN /\ ToToken(p)
          /\ UNCHANGED <<chunks, disk>>
     ELSE IF disk = <<>>
     THEN \* StartOfTimeline
          /\ Conclude(p, Outcome(<<>>, TRUE, FALSE, "start", FALSE, NoToken))
          /\ UNCHANGED <<chunks, disk>>
     ELSE LET c == disk[Len(disk)]
              older == SubSeq(disk, 1, Len(disk) - 1)
          IN /\ Len(chunks) < MaxChunks
             /\ chunks' = <<c>> \o chunks
             /\ disk' = older
             /\ IF c.gap
                THEN ToToken(p)
                ELSE Conclude(p, Outcome(StoreOutcomeEvents(c.items), older = <<>>, c.items # <<>>,
                                         "store", FALSE, NoToken))
  /\ UNCHANGED <<waited, permit, paginator, op, numReq, resp>>
  /\ UNCHANGED histVars
  /\ UNCHANGED lock
  /\ UNCHANGED loginVars

HitEndOutcomeNotStart == Outcome(<<>>, FALSE, FALSE, "hitend", FALSE, NoToken)

\* Lines 140-143: the outcome of the HitEnd arm.
HitEndOutcome == Outcome(<<>>, TRUE, FALSE, "hitend", FALSE, NoToken)

\* Lines 137-152: the match on the token, then set_idle_state and the start of
\* paginate_backward. set_idle_state refuses a paginator that is paginating.
TokenMatch(p) ==
  /\ pc[p] = "token_done"
  /\ IF tokres[p].kind = "HitEnd"
     THEN /\ Conclude(p, HitEndOutcome)
          /\ UNCHANGED paginator
     ELSE IF paginator.state = "Paginating"
     THEN /\ Conclude(p, Failed)
          /\ UNCHANGED paginator
     ELSE /\ pc' = [pc EXCEPT ![p] = "net"]
          /\ paginator' = [state |-> "Paginating", prev |-> tokres[p].tok]
          /\ waitArg' = [waitArg EXCEPT ![p] = "None"]
          /\ UNCHANGED <<out, acc, tokres, didWait>>
  /\ UNCHANGED <<permit, op, numReq, resp>>
  /\ UNCHANGED roomVars
  /\ UNCHANGED histVars
  /\ UNCHANGED lock
  /\ UNCHANGED loginVars

\* Lines 151-152: the server answers with events (newest first) and an end token;
\* no end token means hit_end_of_timeline.
NetReply(p, b, e) ==
  /\ pc[p] = "net"
  /\ resp' = [resp EXCEPT ![p] = [events |-> b, hit_end |-> (e = NoToken)]]
  /\ paginator' = [state |-> IF e = NoToken THEN "Done" ELSE "Idle", prev |-> e]
  /\ pc' = [pc EXCEPT ![p] = "splice"]
  /\ UNCHANGED <<permit, op, waitArg, numReq, tokres, acc, out, didWait>>
  /\ UNCHANGED roomVars
  /\ UNCHANGED histVars
  /\ UNCHANGED lock
  /\ UNCHANGED loginVars

\* Line 152: paginate_backward fails with a transport error.
NetFail(p) ==
  /\ pc[p] = "net"
  /\ paginator' = [paginator EXCEPT !.state = "Idle"]
  /\ Conclude(p, Failed)
  /\ UNCHANGED <<permit, op, numReq, resp>>
  /\ UNCHANGED roomVars
  /\ UNCHANGED histVars
  /\ UNCHANGED lock
  /\ UNCHANGED loginVars

\* Lines 156-308.
Splice(p) ==
  /\ pc[p] = "splice"
  /\ LockFree
  /\ LET r == SpliceResult(chunks, disk, tokres[p].tok, resp[p].events,
                           paginator.prev, resp[p].hit_end)
     IN /\ Len(r.chunks) <= MaxChunks
        /\ chunks' = r.chunks
        /\ IF r.status = "panic"
           THEN /\ pc' = [pc EXCEPT ![p] = "panicked"]
                /\ out' = [out EXCEPT ![p] = r.out]
                /\ tokres' = [tokres EXCEPT ![p] = TokNone]
                /\ didWait' = [didWait EXCEPT ![p] = FALSE]
                /\ UNCHANGED <<acc, waitArg>>
           ELSE Conclude(p, r.out)
  /\ resp' = [resp EXCEPT ![p] = NoResp]
  /\ UNCHANGED <<disk, waited, permit, paginator, op, numReq>>
  /\ UNCHANGED histVars
  /\ UNCHANGED lock
  /\ UNCHANGED loginVars

\* ---------------------------------------------------------------- lock sections, step by step
\* The two writer-lock sections of run_backwards_impl taken in two steps each, the
\* change of the chunks and then the send of the update, the lock being held in
\* between by the guard of the section.
\* Lines 103-131: the guard that state.write().await returns in the scrutinee of
\* the match lives until the end of the match.
MatchGuard(p) == p

GuardAfterMatchKept(p) == p

\* Line 131: past the match, the guard of line 103 is dropped.
GuardAfterMatch(p) == NoHolder

WriterGuardDropped(p) == NoHolder

\* Lines 156-309: `state`, the guard taken at line 156, lives until the function
\* returns.
WriterGuard(p) == p

\* Lines 103-116: the writer lock is taken and load_more_events_backwards runs.
\* Gap and StartOfTimeline leave the match at once; Events has its diffs to send.
StoreLoad(p) ==
  /\ pc[p] = "load"
  /\ LockFree
  /\ IF HasGap(chunks)
     THEN /\ ToToken(p)
          /\ lock' = GuardAfterMatch(p)
          /\ UNCHANGED <<chunks, disk>>
     ELSE IF disk = <<>>
     THEN /\ Conclude(p, Outcome(<<>>, TRUE, FALSE, "start", FALSE, NoToken))
          /\ UNCHANGED <<chunks, disk, lock>>
     ELSE LET c == disk[Len(disk)]
              older == SubSeq(disk, 1, Len(disk) - 1)
          IN /\ Len(chunks) < MaxChunks
             /\ chunks' = <<c>> \o chunks
             /\ disk' = older
             /\ IF c.gap
                THEN /\ ToToken(p)
                     /\ lock' = GuardAfterMatch(p)
                ELSE /\ pc' = [pc EXCEPT ![p] = "store_send"]
                     /\ out' = [out EXCEPT ![p] =
                                  Outcome(StoreOutcomeEvents(c.items), older = <<>>,
                                          c.items # <<>>, "store", FALSE, NoToken)]
                     /\ lock' = MatchGuard(p)
                     /\ UNCHANGED <<acc, tokres, waitArg, didWait>>
  /\ UNCHANGED <<waited, permit, paginator, op, numReq, resp>>
  /\ UNCHANGED histVars
  /\ UNCHANGED loginVars

\* Lines 117-130: the send of the diffs, if any, and the return; the guard goes.
StoreSend(p) ==
  /\ pc[p] = "store_send"
  /\ Conclude(p, out[p])
  /\ lock' = NoHolder
  /\ UNCHANGED <<permit, paginator, op, numReq, resp>>
  /\ UNCHANGED roomVars
  /\ UNCHANGED histVars
  /\ UNCHANGED loginVars

\* Lines 156-299: the writer lock is taken again, the reset check, the
\* deduplication and the splice run, and the outcome is built.
NetSplice(p) ==
  /\ pc[p] = "splice"
  /\ LockFree
  /\ LET r == SpliceResult(chunks, disk, tokres[p].tok, resp[p].events,
                           paginator.prev, resp[p].hit_end)
     IN /\ Len(r.chunks) <= MaxChunks
        /\ chunks' = r.chunks
        /\ IF r.status = "panic"
           THEN /\ pc' = [pc EXCEPT ![p] = "panicked"]
                /\ out' = [out EXCEPT ![p] = r.out]
                /\ tokres' = [tokres EXCEPT ![p] = TokNone]
                /\ didWait' = [didWait EXCEPT ![p] = FALSE]
                /\ UNCHANGED <<acc, waitArg, lock>>
           ELSE IF r.status = "retry"
           THEN /\ Conclude(p, r.out)
                /\ UNCHANGED lock
           ELSE /\ pc' = [pc EXCEPT ![p] = "net_send"]
                /\ out' = [out EXCEPT ![p] = r.out]
                /\ tokres' = [tokres EXCEPT ![p] = TokNone]
                /\ didWait' = [didWait EXCEPT ![p] = FALSE]
                /\ lock' = WriterGuard(p)
                /\ UNCHANGED <<acc, waitArg>>
  /\ resp' = [resp EXCEPT ![p] = NoResp]
  /\ UNCHANGED <<disk, waited, permit, paginator, op, numReq>>
  /\ UNCHANGED histVars
  /\ UNCHANGED loginVars

\* Lines 301-308: the send of the diffs, if any, and the return; `state` goes.
NetSend(p) ==
  /\ pc[p] = "net_send"
  /\ Conclude(p, out[p])
  /\ lock' = NoHolder
  /\ UNCHANGED <<permit, paginator, op, numReq, resp>>
  /\ UNCHANGED roomVars
  /\ UNCHANGED histVars
  /\ UNCHANGED loginVars

\* The points where the future of a call is pending with no lock section open:
\* the lock requests of lines 103, 327, 363 and 156, the notifier wait of line
\* 361 and the network call of line 152.
SuspensionPoints == {"load", "token_read", "waiting", "relock", "net", "splice"}

\* The caller drops the future of its call at one of these points. Dropping the
\* request in flight leaves the paginator idle.
Cancel(p) ==
  /\ pc[p] \in SuspensionPoints
  /\ pc' = [pc EXCEPT ![p] = "idle"]
  /\ op' = [op EXCEPT ![p] = "none"]
  /\ waitArg' = [waitArg EXCEPT ![p] = "None"]
  /\ numReq' = [numReq EXCEPT ![p] = 0]
  /\ tokres' = [tokres EXCEPT ![p] = TokNone]
  /\ resp' = [resp EXCEPT ![p] = NoResp]
  /\ acc' = [acc EXCEPT ![p] = <<>>]
  /\ out' = [out EXCEPT ![p] = Dropped]
  /\ didWait' = [didWait EXCEPT ![p] = @ /\ pc[p] \in {"net", "splice"}]
  /\ paginator' = IF pc[p] = "net" THEN [paginator EXCEPT !.state = "Idle"] ELSE paginator
  /\ lock' = IF lock = p THEN NoHolder ELSE lock
  /\ UNCHANGED permit
  /\ UNCHANGED roomVars
  /\ UNCHANGED histVars
  /\ UNCHANGED loginVars

\* ---------------------------------------------------------------- QR login: LoginWithQrCode::into_future
pagVars == <<chunks, disk, waited, permit, paginator, pc, op, waitArg, numReq,
             tokres, resp, acc, out, didWait, hWaitDone, hEverWaitDone, lock>>

\* self.state.set(v)
SetState(v) == state' = v /\ updates' = Append(updates, v)

\* The future goes on to its next await.
GoesOn(next) == login_pc' = next /\ UNCHANGED result

\* The future returns r.
Returns(r) == login_pc' = "returned" /\ result' = r

\* A call that the `?` operator follows: it succeeds and the future goes on, or
\* it fails and the future returns the converted error.
Fallible(next, error) ==
  \E ok \in BOOLEAN : IF ok THEN GoesOn(next) ELSE Returns(Err(error))

\* channel.send_json(message).await? followed by `then`.
SendJson(message, then) ==
  \E ok \in BOOLEAN :
    IF ok
    THEN sent_json' = Append(sent_json, message) /\ then
    ELSE UNCHANGED sent_json /\ Returns(Err("SecureChannel"))

UnexpectedMessageNotReported(expected, message) ==
  UNCHANGED sent_json /\ Returns(ErrUnexpectedMessage(expected, message))

\* send_unexpected_message_error(&mut channel).await? and the UnexpectedMessage
\* error that follows it.
UnexpectedMessage(expected, message) ==
  SendJson(LoginFailure("UnexpectedMessageReceived"),
           Returns(ErrUnexpectedMessage(expected, message)))

\* The first arm of the match on the answer to the proposed protocol.
ProtocolAcceptedOrDeclined(message) ==
  message.kind \in {"LoginProtocolAccepted", "LoginDeclined"}

ProtocolAccepted(message) == message.kind = "LoginProtocolAccepted"

\* let mut channel = self.establish_secure_channel().await?; and the first set.
EstablishSecureChannel ==
  /\ login_pc = "establish_secure_channel"
  /\ \/ \E check_code \in CheckCodes :
          /\ SetState(EstablishingSecureChannel(check_code))
          /\ GoesOn("register_client")
     \/ /\ Returns(Err("SecureChannel"))
        /\ UNCHANGED <<state, updates>>
  /\ UNCHANGED <<sent_json, received_json, auth_grant_response, tokens_set>>
  /\ UNCHANGED pagVars

\* self.register_client().await?
RegisterClient ==
  /\ login_pc = "register_client"
  /\ Fallible("request_device_authorization", "Oauth")
  /\ UNCHANGED <<state, updates, sent_json, received_json, auth_grant_response,
                 tokens_set>>
  /\ UNCHANGED pagVars

\* let auth_grant_response = self.request_device_authorization(device_id).await?
RequestDeviceAuthorization ==
  /\ login_pc = "request_device_authorization"
  /\ \/ \E user_code \in UserCodes :
          /\ auth_grant_response' = user_code
          /\ GoesOn("send_login_protocol")
     \/ /\ Returns(Err("Oauth"))
        /\ UNCHANGED auth_grant_response
  /\ UNCHANGED <<state, updates, sent_json, received_json, tokens_set>>
  /\ UNCHANGED pagVars

\* channel.send_json(&message).await? with the proposed login protocol.
SendLoginProtocol ==
  /\ login_pc = "send_login_protocol"
  /\ SendJson(Message("LoginProtocol"), GoesOn("receive_protocol_answer"))
  /\ UNCHANGED <<state, updates, received_json, auth_grant_response, tokens_set>>
  /\ UNCHANGED pagVars

\* match channel.receive_json().await? { LoginProtocolAccepted ... } and the
\* second set.
ReceiveProtocolAnswer ==
  /\ login_pc = "receive_protocol_answer"
  /\ \/ /\ Returns(Err("SecureChannel"))
        /\ UNCHANGED <<state, updates, sent_json, received_json>>
     \/ \E message \in PeerMessages :
          /\ received_json' = Append(received_json, message)
          /\ IF ProtocolAccepted(message)
             THEN /\ SetState(WaitingForToken(auth_grant_response))
                  /\ GoesOn("wait_for_tokens")
                  /\ UNCHANGED sent_json
             ELSE IF message.kind = "LoginFailure"
             THEN /\ Returns(ErrLoginFailure(message.reason))
                  /\ UNCHANGED <<state, updates, sent_json>>
             ELSE /\ UnexpectedMessage("m.login.protocol_accepted", message)
                  /\ UNCHANGED <<state, updates>>
  /\ UNCHANGED <<auth_grant_response, tokens_set>>
  /\ UNCHANGED pagVars

TokenErrorReportAlways(e) ==
  IF e = "AccessDenied" THEN Message("LoginDeclined")
  ELSE LoginFailure("AuthorizationExpired")

\* What the login tells the other device when the token request failed with e.
TokenErrorReport(e) ==
  IF e = "AccessDenied" THEN Message("LoginDeclined")
  ELSE IF e = "ExpiredToken" THEN LoginFailure("AuthorizationExpired")
  ELSE NoMessage

\* match self.wait_for_tokens(&auth_grant_response).await and set_session_tokens.
WaitForTokens ==
  /\ login_pc = "wait_for_tokens"
  /\ \/ /\ tokens_set' = TRUE
        /\ GoesOn("whoami")
        /\ UNCHANGED sent_json
     \/ \E e \in TokenErrors :
          /\ UNCHANGED tokens_set
          /\ IF TokenErrorReport(e) # NoMessage
             THEN SendJson(TokenErrorReport(e), Returns(ErrOauth(e)))
             ELSE Returns(ErrOauth(e)) /\ UNCHANGED sent_json
  /\ UNCHANGED <<state, updates, received_json, auth_grant_response>>
  /\ UNCHANGED pagVars

\* self.client.whoami().await.map_err(QRCodeLoginError::UserIdDiscovery)?
Whoami ==
  /\ login_pc = "whoami"
  /\ Fallible("set_session_meta", "UserIdDiscovery")
  /\ UNCHANGED <<state, updates, sent_json, received_json, auth_grant_response,
                 tokens_set>>
  /\ UNCHANGED pagVars

\* self.client.set_session_meta(..).await.map_err(QRCodeLoginError::SessionTokens)?
SetSessionMeta ==
  /\ login_pc = "set_session_meta"
  /\ Fallible("enable_cross_process_lock", "SessionTokens")
  /\ UNCHANGED <<state, updates, sent_json, received_json, auth_grant_response,
                 tokens_set>>
  /\ UNCHANGED pagVars

\* self.client.oidc().enable_cross_process_lock().await?
EnableCrossProcessLock ==
  /\ login_pc = "enable_cross_process_lock"
  /\ Fallible("send_login_success", "Oidc")
  /\ UNCHANGED <<state, updates, sent_json, received_json, auth_grant_response,
                 tokens_set>>
  /\ UNCHANGED pagVars

\* channel.send_json(&QrAuthMessage::LoginSuccess).await?
SendLoginSuccess ==
  /\ login_pc = "send_login_success"
  /\ SendJson(Message("LoginSuccess"), GoesOn("receive_secrets"))
  /\ UNCHANGED <<state, updates, received_json, auth_grant_response, tokens_set>>
  /\ UNCHANGED pagVars

\* let bundle = match channel.receive_json().await? { LoginSecrets(bundle) ... }
ReceiveSecrets ==
  /\ login_pc = "receive_secrets"
  /\ \/ /\ Returns(Err("SecureChannel"))
        /\ UNCHANGED <<sent_json, received_json>>
     \/ \E message \in PeerMessages :
          /\ received_json' = Append(received_json, message)
          /\ IF message.kind = "LoginSecrets"
             THEN GoesOn("import_secrets_bundle") /\ UNCHANGED sent_json
             ELSE IF message.kind = "LoginFailure"
             THEN Returns(ErrLoginFailure(message.reason)) /\ UNCHANGED sent_json
             ELSE UnexpectedMessage("m.login.secrets", message)
  /\ UNCHANGED <<state, updates, auth_grant_response, tokens_set>>
  /\ UNCHANGED pagVars

\* self.client.encryption().import_secrets_bundle(&bundle).await?
ImportSecretsBundle ==
  /\ login_pc = "import_secrets_bundle"
  /\ Fallible("ensure_device_keys_upload", "SecretImport")
  /\ UNCHANGED <<state, updates, sent_json, received_json, auth_grant_response,
                 tokens_set>>
  /\ UNCHANGED pagVars

\* ensure_device_keys_upload().await.map_err(QRCodeLoginError::DeviceKeyUpload)?
EnsureDeviceKeysUpload ==
  /\ login_pc = "ensure_device_keys_upload"
  /\ Fallible("wait_for_e2ee_initialization_tasks", "DeviceKeyUpload")
  /\ UNCHANGED <<state, updates, sent_json, received_json, auth_grant_response,
                 tokens_set>>
  /\ UNCHANGED pagVars

\* wait_for_e2ee_initialization_tasks().await, the last set and Ok(()).
FinishLogin ==
  /\ login_pc = "wait_for_e2ee_initialization_tasks"
  /\ SetState(Done)
  /\ Returns(Ok)
  /\ UNCHANGED <<sent_json, received_json, auth_grant_response, tokens_set>>
  /\ UNCHANGED pagVars

\* ---------------------------------------------------------------- specifications
\* One task running run_backwards_once or run_backwards_until, one call after the
\* other, among the sync feeder and the resets.
Next ==
  \/ \E t \in Tokens, signal \in BOOLEAN : SyncPushGap(t, signal)
  \/ \E e \in Events : SyncPushEvents(e)
  \/ Reset
  \/ StartOnce("p1")
  \/ \E n \in 1..MaxRequested : StartUntil("p1", n)
  \/ Finish("p1")
  \/ TokenRead("p1")
  \/ WaitNotified("p1")
  \/ WaitTimeout("p1")
  \/ TokenAfterWait("p1")
  \/ Load("p1")
  \/ TokenMatch("p1")
  \/ \E b \in Batches, e \in Tokens \cup {NoToken} : NetReply("p1", b, e)
  \/ NetFail("p1")
  \/ Splice("p1")

Spec == Init /\ [][Next]_vars

\* Two tasks calling get_or_wait_for_token concurrently, among the sync feeder and
\* the resets.
NextToken ==
  \/ \E t \in Tokens, signal \in BOOLEAN : SyncPushGap(t, signal)
  \/ \E e \in Events : SyncPushEvents(e)
  \/ Reset
  \/ \E p \in Procs, w \in WaitArgs : StartToken(p, w)
  \/ \E p \in Procs : Finish(p)
  \/ \E p \in Procs : TokenRead(p)
  \/ \E p \in Procs : WaitNotified(p)
  \/ \E p \in Procs : WaitTimeout(p)
  \/ \E p \in Procs : TokenAfterWait(p)

SpecToken == Init /\ [][NextToken]_vars

\* Two tasks calling run_backwards_once concurrently and no other writer: no
\* sync feeder, hence no notification.
NextRace ==
  \/ \E p \in Procs : StartOnce(p)
  \/ \E p \in Procs : Finish(p)
  \/ \E p \in Procs : TokenRead(p)
  \/ \E p \in Procs : WaitTimeout(p)
  \/ \E p \in Procs : TokenAfterWait(p)
  \/ \E p \in Procs : Load(p)
  \/ \E p \in Procs : TokenMatch(p)
  \/ \E p \in Procs, b \in Batches, e \in Tokens \cup {NoToken} : NetReply(p, b, e)
  \/ \E p \in Procs : NetFail(p)
  \/ \E p \in Procs : Splice(p)

SpecRace == Init /\ [][NextRace]_vars

\* One task calling run_backwards_until for up to MaxUntil events, among the
\* Gaps of the sync feeder and the resets.
NextUntil ==
  \/ \E t \in Tokens, signal \in BOOLEAN : SyncPushGap(t, signal)
  \/ Reset
  \/ \E n \in 1..MaxUntil : StartUntil("p1", n)
  \/ Finish("p1")
  \/ TokenRead("p1")
  \/ WaitNotified("p1")
  \/ WaitTimeout("p1")
  \/ TokenAfterWait("p1")
  \/ Load("p1")
  \/ TokenMatch("p1")
  \/ \E b \in Batches, e \in Tokens \cup {NoToken} : NetReply("p1", b, e)
  \/ NetFail("p1")
  \/ Splice("p1")

SpecUntil == Init /\ [][NextUntil]_vars

\* One task calling run_backwards_once, its lock sections taken step by step and
\* its call dropped at will, among the sync feeder and the resets.
NextLock ==
  \/ \E t \in Tokens, signal \in BOOLEAN : SyncPushGap(t, signal)
  \/ \E e \in Events : SyncPushEvents(e)
  \/ Reset
  \/ StartOnce("p1")
  \/ Finish("p1")
  \/ Cancel("p1")
  \/ TokenRead("p1")
  \/ WaitNotified("p1")
  \/ WaitTimeout("p1")
  \/ TokenAfterWait("p1")
  \/ StoreLoad("p1")
  \/ StoreSend("p1")
  \/ TokenMatch("p1")
  \/ \E b \in Batches, e \in Tokens \cup {NoToken} : NetReply("p1", b, e)
  \/ NetFail("p1")
  \/ NetSplice("p1")
  \/ NetSend("p1")

SpecLock == Init /\ [][NextLock]_vars

\* The callers of get_or_wait_for_token under the scheduling the code relies on:
\* tokio's RwLock is fair, so a task that asks for the reader or the writer lock
\* gets it, and timeout(wait_time, notified()) ends by the notification or when
\* the time is up.  Nothing is assumed of the sync feeder.
FairToken ==
  \A p \in Procs :
    /\ WF_vars(TokenRead(p))
    /\ WF_vars(WaitNotified(p) \/ WaitTimeout(p))
    /\ WF_vars(TokenAfterWait(p))

SpecTokenFair == Init /\ [][NextToken]_vars /\ FairToken

\* One back-paginating task under the premises of its termination: the task
\* does not stay forever at any of its suspension points (the locks are fair,
\* the notifier wait is bounded, the store and the network calls return), and
\* from some point on no reset happens.  Nothing is assumed of the sync feeder.
\* The steps of the token acquisition and of the re-arming of the paginator are
\* weakly fair; the step at every point is enabled whenever the task is there,
\* unless the room of the model is full (MaxChunks), so that its weak fairness
\* is stated on the point itself: the task does not stay there forever.
AttemptPoints ==
  {"load", "token_read", "waiting", "relock", "token_done", "net", "splice"}

FairAttempt(p) ==
  /\ WF_vars(TokenRead(p))
  /\ WF_vars(WaitNotified(p) \/ WaitTimeout(p))
  /\ WF_vars(TokenAfterWait(p))
  /\ WF_vars(TokenMatch(p))
  /\ \A q \in AttemptPoints : []<>(pc[p] # q)

FinitelyManyResets == <>[][~Reset]_vars

SpecFair == Init /\ [][Next]_vars /\ FairAttempt("p1") /\ FinitelyManyResets

\* The login by QR code alone, with the room left as it is.
InitLogin == Init /\ chunks = <<>> /\ disk = <<>>

NextLogin ==
  \/ EstablishSecureChannel
  \/ RegisterClient
  \/ RequestDeviceAuthorization
  \/ SendLoginProtocol
  \/ ReceiveProtocolAnswer
  \/ WaitForTokens
  \/ Whoami
  \/ SetSessionMeta
  \/ EnableCrossProcessLock
  \/ SendLoginSuccess
  \/ ReceiveSecrets
  \/ ImportSecretsBundle
  \/ EnsureDeviceKeysUpload
  \/ FinishLogin

SpecLogin == InitLogin /\ [][NextLogin]_vars

\* ---------------------------------------------------------------- properties
\* Task p takes its step out of the reader-lock scope of get_or_wait_for_token.
ReadsToken(p) == pc[p] = "token_read" /\ pc'[p] # "token_read"

\* The read ended the call (or handed the token to run_backwards_impl) at once.
ReturnedAtOnce(p) == pc'[p] \in {"done", "token_done"} /\ ~didWait'[p]

\* Task p takes its step out of the writer-lock scope that follows the wait.
EndsWait(p) == pc[p] = "relock" /\ pc'[p] # "relock"

\* The token of the Gap nearest to the newest end.
NewestGapToken(cs) ==
  LET gaps == {i \in 1..Len(cs) : cs[i].gap}
  IN cs[CHOOSE i \in gaps : \A k \in gaps : k <= i].tok

DistinctGapTokens(cs) ==
  \E i, k \in 1..Len(cs) : i < k /\ cs[i].gap /\ cs[k].gap /\ cs[i].tok # cs[k].tok

NoDuplicate(s) == \A i, k \in 1..Len(s) : s[i] = s[k] => i = k

\* An attempt of task p ends in this step with Ok(Some(outcome)).
Concludes(p) ==
  /\ pc[p] \in {"load", "token_done", "splice"}
  /\ pc'[p] \in {"done", "load"}
  /\ out'[p].kind = "outcome"
  /\ <<pc'[p], out'[p], acc'[p]>> # <<pc[p], out[p], acc[p]>>

C2_EventUniqueness == NoDuplicate(AllEvents(disk \o chunks))

\* One task has spliced events in; the other is about to splice a response that
\* holds one of the room's events and a new one.
C2_Witness ==
  \E p, q \in Procs :
    /\ p # q
    /\ pc[p] = "done" /\ out[p].via = "network" /\ out[p].events # <<>>
    /\ pc[q] = "splice"
    /\ \E i, k \in 1..Len(resp[q].events) :
         /\ resp[q].events[i] \in EventSet(chunks)
         /\ resp[q].events[k] \notin EventSet(chunks) \cup EventSet(disk)

\* C3: whenever an attempt returns reached_start = true, by any of its returns,
\* no Gap is in the LinkedChunks and its oldest chunk has nothing before it in the
\* store.
C3_ReachedStartSound ==
  [][\A p \in Procs :
       Concludes(p) /\ out'[p].reached_start
         => ~HasGap(chunks') /\ is_definitive_head(disk')]_vars

\* C4 as stated: the reached_start of a network attempt is (no Gap) and (the
\* oldest chunk is the definitive head, or the server reported the end).
C4_Original ==
  [][\A p \in Procs :
       Concludes(p) /\ out'[p].via = "network"
         => out'[p].reached_start
              = (~HasGap(chunks')
                   /\ ((chunks' # <<>> /\ is_definitive_head(disk')) \/ resp[p].hit_end))]_vars

\* C4, amended: the reached_start of a network attempt is (no Gap) and (the
\* oldest chunk is the definitive head if there is a chunk, else the server
\* reported the end): the server's flag counts only when no chunk is left.
C4_ReachedStartFormula ==
  [][\A p \in Procs :
       Concludes(p) /\ out'[p].via = "network"
         => out'[p].reached_start
              = (~HasGap(chunks')
                   /\ (\/ chunks' # <<>> /\ is_definitive_head(disk')
                       \/ chunks' = <<>> /\ resp[p].hit_end))]_vars

\* A network attempt on which the server reported the end returned
\* reached_start = false with no Gap left: older chunks are still in the store.
C4_Witness ==
  /\ pc["p1"] = "done" /\ out["p1"].via = "network" /\ out["p1"].hit_end
  /\ ~out["p1"].reached_start
  /\ ~HasGap(chunks) /\ chunks # <<>> /\ disk # <<>>

\* C5: with a Gap in the room, get_or_wait_for_token returns HasMore with the
\* token of the newest Gap, whatever its wait argument, without waiting and
\* without changing the room state.
C5_GapGivesHasMore ==
  [][\A p \in Procs :
       ReadsToken(p) /\ HasGap(chunks)
         => /\ ReturnedAtOnce(p)
            /\ tokres'[p] = TokHasMore(NewestGapToken(chunks))
            /\ roomVars' = roomVars]_vars

\* A call with a wait argument returned, without waiting, the token of the newest
\* of two Gaps that carry different tokens.
C5_Witness ==
  \E p \in Procs :
    /\ pc[p] = "done" /\ op[p] = "token" /\ waitArg[p] = "Pos" /\ ~didWait[p]
    /\ Len(chunks) = 3 /\ DistinctGapTokens(chunks)
    /\ tokres[p] = TokHasMore(chunks[3].tok)

\* C6: with no Gap but at least one events chunk, get_or_wait_for_token returns
\* HitEnd, whatever its wait argument, without waiting and without setting
\* waited_for_initial_prev_token.
C6_EventsGiveHitEnd ==
  [][\A p \in Procs :
       ReadsToken(p) /\ ~HasGap(chunks) /\ HasEvents(chunks)
         => /\ ReturnedAtOnce(p)
            /\ tokres'[p] = TokHitEnd
            /\ roomVars' = roomVars]_vars

\* A call with a wait argument returned HitEnd without waiting although the
\* initial wait had not been done.
C6_Witness ==
  \E p \in Procs :
    /\ pc[p] = "done" /\ op[p] = "token" /\ waitArg[p] # "None" /\ ~didWait[p]
    /\ tokres[p] = TokHitEnd
    /\ ~waited /\ ~HasGap(chunks) /\ HasEvents(chunks)

\* C7: on an empty room, get_or_wait_for_token(None) returns None without
\* waiting and leaves the flag and the chunks as they are, so that a later call
\* with a wait time still does the initial wait.
C7_NoWaitArgument ==
  [][\A p \in Procs :
       ReadsToken(p) /\ chunks = <<>>
         => /\ waitArg[p] = "None"
              => ReturnedAtOnce(p) /\ tokres'[p] = TokNone /\ roomVars' = roomVars
            /\ waitArg[p] # "None" /\ ~waited => pc'[p] = "waiting"]_vars

\* A call without a wait argument returned None on an empty room whose flag is
\* still false, and the other task's call with a wait time is waiting.
C7_Witness ==
  \E p, q \in Procs :
    /\ pc[p] = "done" /\ op[p] = "token" /\ waitArg[p] = "None" /\ tokres[p] = TokNone
    /\ pc[q] = "waiting"
    /\ chunks = <<>> /\ ~waited

\* C8 as stated: once a wait has ended, the flag is true and every later call on
\* a room with no Gap and no events returns None at once.
C8_Original ==
  [][\A p \in Procs :
       /\ EndsWait(p) => waited'
       /\ hEverWaitDone /\ ReadsToken(p) /\ chunks = <<>>
            => ReturnedAtOnce(p) /\ tokres'[p] = TokNone]_vars

\* C8, amended: once a wait has ended, the flag is true, and every later call on
\* a room with no Gap and no events returns None at once as long as the room
\* state has not been reset since.
C8_NoSecondWait ==
  [][\A p \in Procs :
       /\ EndsWait(p) => waited'
       /\ hWaitDone /\ ReadsToken(p) /\ chunks = <<>>
            => ReturnedAtOnce(p) /\ tokres'[p] = TokNone]_vars

\* After a wait, with no reset since, a call with a wait time on the empty room
\* returned None without waiting.
C8_Witness ==
  \E p \in Procs :
    /\ hWaitDone /\ waited /\ chunks = <<>>
    /\ pc[p] = "done" /\ op[p] = "token" /\ waitArg[p] = "Pos" /\ ~didWait[p]
    /\ tokres[p] = TokNone

\* C9 as stated: at most one call is ever in the notifier wait of a room.
C9_Original == Cardinality({p \in Procs : pc[p] \in {"waiting", "relock"}}) <= 1

\* C9, amended: a call enters the notifier wait only when it has a wait time and
\* reads, on an empty room, a flag that is false: no wait has ended since the
\* room state was created or last reset.
C9_WaitOnlyBeforeFlag ==
  [][\A p \in Procs :
       pc[p] # "waiting" /\ pc'[p] = "waiting"
         => ~waited /\ ~hWaitDone /\ chunks = <<>> /\ waitArg[p] # "None"]_vars

\* Two calls that both read the flag before either set it wait at the same time.
C9_Witness == pc["p1"] = "waiting" /\ pc["p2"] = "waiting"

\* C10 as stated: a wait that ends with a token leaves the flag as it was.
C10_Original ==
  [][\A p \in Procs :
       EndsWait(p) /\ AfterWait(chunks).kind = "HasMore" => waited' = waited]_vars

\* C10, amended: the flag is true exactly when a wait has ended since the room
\* state was created or last reset, whatever that wait brought: a wait that ends
\* with a token sets it as well.
C10_FlagIffWaitEnded == waited <=> hWaitDone

\* A call waited, got a token from its wait, and the flag is set.
C10_Witness ==
  \E p \in Procs :
    /\ pc[p] = "done" /\ op[p] = "token" /\ didWait[p] /\ tokres[p].kind = "HasMore"
    /\ waited

\* The token a call gets from the chunks cs as they are when its wait ends.
TokenOfState(cs) ==
  IF HasGap(cs) THEN TokHasMore(NewestGapToken(cs))
  ELSE IF cs # <<>> THEN TokHitEnd
  ELSE TokNone

\* C11: a call that waited returns what the room holds when the wait ends:
\* HasMore(t) for a Gap pushed meanwhile, HitEnd for events only, None for
\* nothing, whether the wait ended on a notification or on the timeout.
C11_ResultAfterWait ==
  [][\A p \in Procs :
       EndsWait(p)
         => /\ tokres'[p] = TokenOfState(chunks)
            /\ pc'[p] \in {"done", "token_done"}
            /\ chunks' = chunks /\ disk' = disk]_vars

\* Both calls waited on the empty room; one came back with the token of a Gap
\* pushed during its wait, the other with HitEnd.
C11_Witness ==
  \E p, q \in Procs :
    /\ pc[p] = "done" /\ op[p] = "token" /\ didWait[p] /\ tokres[p].kind = "HasMore"
    /\ pc[q] = "done" /\ op[q] = "token" /\ didWait[q] /\ tokres[q] = TokHitEnd

\* C12: a reset clears the flag together with the events, so that after a wait
\* and a reset a call with a wait time on the empty room waits again, and
\* returns None if the wait brings nothing.
C12_ResetAllowsWait ==
  [][/\ ~hWaitDone' => ~waited'
     /\ \A p \in Procs :
          /\ ReadsToken(p) /\ hEverWaitDone /\ ~hWaitDone /\ chunks = <<>>
               /\ waitArg[p] # "None"
               => pc'[p] = "waiting"
          /\ EndsWait(p) /\ chunks = <<>> => tokres'[p] = TokNone]_vars

\* The task waited in an earlier call; the room was reset; its present call waits
\* again.
C12_Witness ==
  /\ pc["p1"] = "waiting"
  /\ hEverWaitDone /\ ~hWaitDone /\ ~waited /\ chunks = <<>>

\* Task p takes its step through the writer-lock section after its network call.
SplicesWith(p) == pc[p] = "splice" /\ pc'[p] # "splice"

\* The places of the Gaps that carry token t.
GapsWith(cs, t) == {i \in 1..Len(cs) : cs[i].gap /\ cs[i].tok = t}

\* The events of a batch that neither memory nor the store holds, in batch order.
NewOf(cs, dsk, batch) ==
  SelectSeq(batch, LAMBDA e : e \notin EventSet(cs) \cup EventSet(dsk))

\* C13: an attempt that used token t, finds a Gap with t and got at least one
\* unknown event puts the unknown events, oldest first, where that Gap was (with
\* the new Gap, if any, right before them), leaves the other chunks in place,
\* returns those events newest first and broadcasts its update. On
\* [Gap t, Items[e1]] with the answer {[e0], no end token} the room becomes
\* e0, e1 without a Gap and the outcome is {[e0], reached_start = true}.
C13_GapFill ==
  [][\A p \in Procs :
       SplicesWith(p)
         => /\ LET t == tokres[p].tok
                   new == NewOf(chunks, disk, resp[p].events)
               IN t # NoToken /\ GapsWith(chunks, t) # {} /\ new # <<>>
                    => /\ \E g \in GapsWith(chunks, t) :
                            LET before == SubSeq(chunks, 1, g - 1)
                                after == SubSeq(chunks, g + 1, Len(chunks))
                                filled == <<ItemsChunk(Reverse(new))>>
                            IN \/ chunks' = before \o filled \o after
                               \/ /\ paginator.prev # NoToken
                                  /\ chunks' = before \o <<GapChunk(paginator.prev)>>
                                                 \o filled \o after
                       /\ out'[p].kind = "outcome"
                       /\ out'[p].events = new
                       /\ out'[p].sent
            /\ \A t \in Tokens, e0, e1 \in Events :
                 /\ e0 # e1
                 /\ chunks = <<GapChunk(t), ItemsChunk(<<e1>>)>> /\ disk = <<>>
                 /\ tokres[p].tok = t
                 /\ resp[p] = [events |-> <<e0>>, hit_end |-> TRUE]
                 /\ paginator.prev = NoToken
                 => /\ AllEvents(chunks') = <<e0, e1>> /\ ~HasGap(chunks')
                    /\ out'[p].kind = "outcome"
                    /\ out'[p].events = <<e0>>
                    /\ out'[p].reached_start]_vars

\* The attempt with token 1 on [Gap 1, Items[1]] got {[2], no end token}: the
\* room holds 2, 1 and no Gap, and the outcome is {[2], reached_start = true}.
C13_Witness ==
  /\ pc["p1"] = "done"
  /\ out["p1"] = Outcome(<<2>>, TRUE, TRUE, "network", TRUE, 1)
  /\ chunks = <<ItemsChunk(<<2>>), ItemsChunk(<<1>>)>> /\ disk = <<>>

\* C14: an attempt that used token t, finds a Gap with t and got only known
\* events removes that Gap and does nothing else: no event inserted, no new Gap
\* stored even when the server gave an end token, empty events in the outcome,
\* the events of the room and their order unchanged.
C14_AllDuplicates ==
  [][\A p \in Procs :
       LET t == tokres[p].tok
       IN SplicesWith(p) /\ t # NoToken /\ GapsWith(chunks, t) # {}
            /\ NewOf(chunks, disk, resp[p].events) = <<>>
            => /\ \E g \in GapsWith(chunks, t) : chunks' = RemoveAt(chunks, g)
               /\ AllEvents(chunks') = AllEvents(chunks)
               /\ disk' = disk
               /\ out'[p].kind = "outcome"
               /\ out'[p].events = <<>>]_vars

\* An attempt with a token returned no event although the server gave an end
\* token: its Gap was removed (the update was sent), and the room holds events
\* and no Gap.
C14_Witness ==
  /\ pc["p1"] = "done"
  /\ out["p1"].via = "network" /\ out["p1"].token # NoToken
  /\ out["p1"].events = <<>> /\ out["p1"].sent /\ ~out["p1"].hit_end
  /\ ~HasGap(chunks) /\ HasEvents(chunks)

\* C15: an attempt that used token t and finds no Gap with t when it takes the
\* writer lock after the network call drops what it fetched: the room state is
\* left as it is, nothing is broadcast, no error is raised, and the loop of the
\* caller starts another attempt; a call never returns that attempt's result.
C15_ResetMidFlight ==
  [][\A p \in Procs :
       /\ SplicesWith(p) /\ tokres[p].tok # NoToken
            /\ GapsWith(chunks, tokres[p].tok) = {}
            => /\ roomVars' = roomVars
               /\ out'[p].kind = "retry" /\ ~out'[p].sent /\ out'[p].events = <<>>
               /\ acc'[p] = acc[p]
               /\ pc'[p] = "load"
       /\ pc'[p] = "done" => out'[p].kind # "retry"]_vars

\* The Gap of the token was gone after the network call: run_backwards_once is
\* about to run its next attempt.
C15_Witness ==
  /\ pc["p1"] = "load" /\ op["p1"] = "once" /\ out["p1"].kind = "retry"

\* C16: with the token HitEnd the attempt returns {events: [], reached_start:
\* true} at once: the paginator is not re-armed, no network call is made, the
\* room state is not changed and no update is broadcast.
C16_HitEndReturns ==
  [][\A p \in Procs :
       pc[p] = "token_done" /\ tokres[p] = TokHitEnd /\ pc'[p] # "token_done"
         => /\ pc'[p] = "done"
            /\ out'[p].kind = "outcome"
            /\ out'[p].events = <<>>
            /\ out'[p].reached_start
            /\ ~out'[p].sent
            /\ paginator' = paginator
            /\ resp' = resp
            /\ roomVars' = roomVars]_vars

\* run_backwards_once returned by the HitEnd arm: the room holds events and no
\* Gap, and the paginator was never used.
C16_Witness ==
  /\ pc["p1"] = "done" /\ op["p1"] = "once" /\ out["p1"].via = "hitend"
  /\ out["p1"].events = <<>> /\ out["p1"].reached_start
  /\ HasEvents(chunks) /\ ~HasGap(chunks)
  /\ paginator = [state |-> "Idle", prev |-> NoToken]

\* The attempt task p is finishing got from the server the very batch that the
\* attempt before it, in the same call, got and inserted.
SameBatchAgain(p) ==
  /\ SplicesWith(p)
  /\ out[p].kind = "outcome" /\ out[p].via = "network"
  /\ resp[p].events # <<>>
  /\ resp[p].events = out[p].events

\* C17 as stated: the second of two consecutive attempts that receive the same
\* batch leaves the LinkedChunks exactly as the first left them.
C17_Original ==
  [][\A p \in Procs : SameBatchAgain(p) => chunks' = chunks]_vars

\* C17, amended: the second of two consecutive attempts that receive the same
\* batch, its events still being held, inserts no event and stores no new Gap:
\* the events and their order stay as the first attempt left them, and the only
\* change is the removal of the Gap whose token the second attempt used.
C17_DedupIdempotence ==
  [][\A p \in Procs :
       SameBatchAgain(p) /\ NewOf(chunks, disk, resp[p].events) = <<>>
         => /\ AllEvents(chunks') = AllEvents(chunks)
            /\ disk' = disk
            /\ \/ chunks' = chunks
               \/ \E g \in GapsWith(chunks, tokres[p].tok) : chunks' = RemoveAt(chunks, g)
            /\ out'[p].events = <<>>]_vars

\* The second attempt of a run_backwards_until call holds the batch its first
\* attempt inserted, and the Gap of its token is there.
C17_Witness ==
  /\ pc["p1"] = "splice" /\ op["p1"] = "until"
  /\ out["p1"].kind = "outcome" /\ out["p1"].via = "network"
  /\ resp["p1"].events # <<>> /\ resp["p1"].events = out["p1"].events
  /\ Range(resp["p1"].events) \subseteq EventSet(chunks)
  /\ GapsWith(chunks, tokres["p1"].tok) # {}
  /\ paginator.prev # NoToken

GapCount(cs, t) == Cardinality(GapsWith(cs, t))

IsSlice(s, big) ==
  \E k \in 0..(Len(big) - Len(s)) : SubSeq(big, k + 1, k + Len(s)) = s

\* C19: the events of an outcome, from the store or from the network, are the
\* exact reverse of the order in which these events stand in the LinkedChunks,
\* and each is newer than the ones after it.
C19_NewestFirst ==
  [][\A p \in Procs :
       Concludes(p) /\ out'[p].via \in {"store", "network"} /\ out'[p].events # <<>>
         => LET evs == out'[p].events
            IN /\ IsSlice(Reverse(evs), AllEvents(chunks'))
               /\ \A i, k \in 1..Len(evs) : i < k => evs[i] > evs[k]]_vars

\* The store gave the chunk [1, 2]: it is the first chunk of the room and the
\* outcome lists 2, 1.
C19_Witness ==
  /\ pc["p1"] = "done" /\ out["p1"].via = "store"
  /\ out["p1"].events = <<2, 1>>
  /\ chunks # <<>> /\ chunks[1] = ItemsChunk(<<1, 2>>)

\* C20: run_backwards_until(n) returns Ok only with reached_start = true or with
\* at least n events; the events it returns (`events`, lines 59-68) are those of
\* its completed attempts, in attempt order, and its reached_start is the one of
\* the last attempt.
C20_UntilContract ==
  [][\A p \in Procs :
       op'[p] = "until"
         => /\ pc[p] = "idle" => acc'[p] = <<>>
            /\ Concludes(p) => acc'[p] = acc[p] \o out'[p].events
            /\ pc[p] \notin {"idle", "done"} /\ ~Concludes(p) => acc'[p] = acc[p]
            /\ pc[p] # "done" /\ pc'[p] = "done" /\ out'[p].kind = "outcome"
                 => /\ Concludes(p)
                    /\ out'[p].reached_start \/ Len(acc'[p]) >= numReq[p]
                    /\ Returned(p)' = [out'[p] EXCEPT !.events = acc'[p]]
            /\ pc'[p] = "load" /\ out'[p].kind = "outcome" /\ Concludes(p)
                 => ~out'[p].reached_start /\ Len(acc'[p]) < numReq[p]]_vars

\* run_backwards_until(2) returned two events that two attempts brought, one
\* each.
C20_Witness ==
  /\ pc["p1"] = "done" /\ op["p1"] = "until" /\ numReq["p1"] = 2
  /\ out["p1"].kind = "outcome" /\ Len(out["p1"].events) = 1
  /\ Len(acc["p1"]) = 2 /\ acc["p1"][2] = out["p1"].events[1]
  /\ Returned("p1").events = acc["p1"]

\* Task p takes a step of its attempt that comes before the writer-lock section
\* of lines 156-308: the load that found a Gap, the token acquisition, the
\* re-arming of the paginator, or the end of the network call.
StepBeforeSplice(p) ==
  /\ pc[p] \in {"load", "token_read", "waiting", "relock", "token_done", "net"}
  /\ pc'[p] # pc[p]
  /\ \/ pc'[p] \in {"token_read", "waiting", "relock", "token_done", "net"}
     \/ pc[p] = "net" /\ out'[p].kind = "err"

\* The network call of task p ends in this step with a transport error.
TransportError(p) == pc[p] = "net" /\ pc'[p] # "net" /\ out'[p].kind = "err"

\* The chunks of the room, those left in the store and those in memory.
RoomChunks(cs, dsk) == dsk \o cs

\* C21 as stated: on a transport error the call returns the error without
\* another attempt, nothing was broadcast, and the attempt has changed nothing of
\* the room state, waited_for_initial_prev_token included.
C21_Original ==
  [][\A p \in Procs :
       TransportError(p)
         => /\ pc'[p] = "done" /\ Returned(p)'.kind = "err" /\ ~out'[p].sent
            /\ roomVars' = roomVars
            /\ ~didWait[p]]_vars

\* C21, amended: on a transport error the call returns the error without another
\* attempt and nothing was broadcast; up to the error the attempt has inserted,
\* removed or moved no chunk of the room (store and memory taken together: the
\* load of step 1 may have brought the store's Gap into memory), but a token
\* acquisition that waited has set waited_for_initial_prev_token.
C21_TransportError ==
  [][\A p \in Procs :
       /\ TransportError(p)
            => /\ pc'[p] = "done" /\ Returned(p)'.kind = "err" /\ ~out'[p].sent
               /\ roomVars' = roomVars
       /\ StepBeforeSplice(p)
            => /\ RoomChunks(chunks', disk') = RoomChunks(chunks, disk)
               /\ out'[p].kind # "err" => out'[p] = out[p]
               /\ waited' # waited => pc[p] = "relock" /\ didWait[p] /\ waited'
               /\ pc[p] = "relock" => waited' /\ didWait'[p]]_vars

\* run_backwards_once returned a transport error after its token acquisition had
\* waited on the still empty room: the flag is set.
C21_Witness ==
  /\ pc["p1"] = "done" /\ op["p1"] = "once" /\ out["p1"].kind = "err"
  /\ didWait["p1"] /\ waited /\ chunks = <<>>
  /\ paginator = [state |-> "Idle", prev |-> NoToken]

\* The call of task p is dropped in this step.
Cancelled(p) == pc[p] \in SuspensionPoints /\ pc'[p] = "idle"

\* The token acquisition of the attempt task p is running has waited, and its
\* wait is over: the attempt itself has set waited_for_initial_prev_token.
SetFlagItself(p) == didWait[p] /\ pc[p] \in {"token_done", "net", "splice"}

\* C22 as stated: a task cancelled at a suspension point before the writer lock is
\* taken again at step 4 has changed nothing of the room state,
\* waited_for_initial_prev_token included.
C22_Original ==
  [][\A p \in Procs :
       Cancelled(p) => roomVars' = roomVars /\ ~SetFlagItself(p)]_vars

\* C22, amended: a task cancelled at a suspension point before the writer lock is
\* taken again at step 4 has inserted, removed or moved no chunk of the room
\* (store and memory taken together) and has broadcast nothing, and the
\* cancellation itself changes nothing; waited_for_initial_prev_token is as it
\* was only up to the end of the token wait: the step that ends the wait sets it,
\* so a task cancelled later, in its network round-trip, leaves it set.
C22_CancelFrame ==
  [][\A p \in Procs :
       /\ Cancelled(p) => roomVars' = roomVars /\ out'[p] = Dropped
       /\ StepBeforeSplice(p) /\ out'[p].kind # "err"
            => /\ RoomChunks(chunks', disk') = RoomChunks(chunks, disk)
               /\ out'[p] = out[p]
               /\ pc[p] # "relock" => waited' = waited
               /\ pc[p] = "relock" => waited' /\ SetFlagItself(p)']_vars

\* The call was dropped during its network round-trip, after a token wait on the
\* empty room: the flag it set stays.
C22_Witness ==
  /\ pc["p1"] = "idle" /\ out["p1"] = Dropped /\ didWait["p1"]
  /\ waited /\ chunks = <<>>

\* Task q is past its token acquisition with the token t and has not yet taken
\* the writer lock of step 4.
InFlightWith(q, t) == pc[q] \in {"net", "splice"} /\ tokres[q].tok = t

\* C23: of two attempts that run concurrently with the token of the same Gap,
\* the first to take the writer lock of step 4 replaces or removes that Gap and
\* leaves no Gap with that token, so that the second finds it gone, inserts
\* nothing and retries.
C23_OneSplicePerGap ==
  [][\A p, q \in Procs :
       LET t == tokres[p].tok
       IN /\ p # q /\ SplicesWith(p) /\ t # NoToken /\ GapsWith(chunks, t) # {}
               /\ InFlightWith(q, t)
               => GapsWith(chunks', t) = {}
          /\ SplicesWith(p) /\ t # NoToken /\ GapsWith(chunks, t) = {}
               => chunks' = chunks /\ out'[p].kind = "retry"]_vars

\* Task p has changed the chunks under a writer lock and has not yet sent the
\* update of that change.
PendingSend(p) == pc[p] \in {"store_send", "net_send"}

\* Task p takes a step that changes the events of the room and goes on.
AppliesEvents(p) ==
  /\ pc[p] \in {"load", "splice"} /\ pc'[p] \notin {pc[p], "panicked"}
  /\ AllEvents(chunks') # AllEvents(chunks)

\* C24: an update of pagination is sent under the writer lock that covered its
\* change, on the store path and on the network path: from the change to the
\* send the task holds the lock, and the only step taken is the send of the
\* update computed with the change, so that no other writer's change falls in
\* between and the updates go out in the order of the changes.
C24_SendUnderLock ==
  [][\A p \in Procs :
       /\ AppliesEvents(p) => PendingSend(p)' /\ out'[p].sent /\ lock' = p
       /\ PendingSend(p)
            => /\ lock = p
               /\ roomVars' = roomVars
               /\ pc'[p] \in {"done", "load"} /\ out'[p] = out[p]
               /\ lock' = NoHolder]_vars

\* The splice of a network attempt is done and its update is about to be sent;
\* the sync feeder has an event to push and room for it, and must wait.
C24_Witness ==
  /\ pc["p1"] = "net_send" /\ out["p1"].sent /\ out["p1"].events # <<>>
  /\ lock = "p1"
  /\ Len(chunks) < MaxChunks
  /\ \E e \in Events : \A k \in EventSet(chunks) \cup EventSet(disk) : k < e

\* Task p is between the load of step 1 and the writer lock of step 4.
BetweenSections(p) ==
  pc[p] \in {"token_read", "waiting", "relock", "token_done", "net", "splice"}

\* C25: from the end of the load to step 4 the attempt holds no lock on the room
\* state, in particular while it waits on the notifier and while its request is
\* in flight, so that the sync feeder can take the writer lock and write; step 4
\* takes the writer lock anew.
C25_NoLockHeld ==
  [][\A p \in Procs :
       /\ BetweenSections(p) => LockFree
       /\ BetweenSections(p)' => LockFree'
       /\ SplicesWith(p) /\ pc'[p] = "net_send" => lock' = p]_vars

\* The request of an attempt that got no token from the empty room is in flight,
\* and the sync feeder has meanwhile pushed a Gap and an event.
C25_Witness ==
  /\ pc["p1"] = "net" /\ tokres["p1"] = TokNone /\ LockFree
  /\ HasGap(chunks) /\ HasEvents(chunks)

TotalGaps(cs) == Cardinality({i \in 1..Len(cs) : cs[i].gap})

\* Task p ends the writer-lock section of step 4 with an outcome.
SplicesToOutcome(p) == SplicesWith(p) /\ out'[p].kind = "outcome"

\* The Gap with token t stands right before the items chunk that starts with e.
GapRightBefore(cs, t, e) ==
  \E i \in 1..Len(cs) - 1 :
    cs[i] = GapChunk(t) /\ ~cs[i + 1].gap /\ cs[i + 1].items[1] = e

LoadStep(p) ==
  /\ pc[p] = "load"
  /\ pc'[p] # "load" \/ (disk # <<>> /\ chunks' = <<disk[Len(disk)]>> \o chunks)

\* What load_more_events_backwards answers in the current state.
StoreAnswersGap == HasGap(chunks) \/ (disk # <<>> /\ disk[Len(disk)].gap)

StoreAnswersStart == ~HasGap(chunks) /\ disk = <<>>

\* C27: the local fast path.  When the store answers StartOfTimeline the
\* attempt returns {events: [], reached_start: true} and sends nothing; when it
\* answers Events the attempt returns them newest first with the store's
\* reached_start and sends the update exactly when there are diffs; neither
\* acquires a token or touches the paginator.  Only the Gap answer goes on to
\* the token acquisition, and it returns nothing yet.
C27_LocalFastPath ==
  [][\A p \in Procs :
       LoadStep(p)
         => /\ paginator' = paginator /\ waited' = waited /\ permit' = permit
            /\ tokres'[p] = TokNone
            /\ IF StoreAnswersGap
               THEN pc'[p] = "token_read" /\ out'[p] = out[p]
               ELSE /\ pc'[p] \in {"done", "load"}
                    /\ out'[p].kind = "outcome"
                    /\ out'[p].via \in {"start", "store"}
                    /\ out'[p].token = NoToken /\ ~out'[p].hit_end
                    /\ IF StoreAnswersStart
                       THEN /\ out'[p].events = <<>> /\ out'[p].reached_start
                            /\ ~out'[p].sent
                            /\ UNCHANGED <<chunks, disk>>
                       ELSE /\ out'[p].events = Reverse(disk[Len(disk)].items)
                            /\ out'[p].reached_start = (Len(disk) = 1)
                            /\ out'[p].sent = (disk[Len(disk)].items # <<>>)]_vars

\* The store gave a chunk of events and has more to give.
C27_Witness ==
  /\ pc["p1"] = "done" /\ out["p1"].via = "store"
  /\ out["p1"].events # <<>> /\ out["p1"].sent /\ ~out["p1"].reached_start
  /\ chunks # <<>> /\ chunks[1].items = Reverse(out["p1"].events)
  /\ disk # <<>> /\ paginator.prev = NoToken

\* Task p takes a step of its attempt.
AttemptStep(p) == pc'[p] # pc[p] \/ LoadStep(p)

\* `new` is `old` with `block` put in at one place.
IsInsertion(old, new, block) ==
  \E k \in 0..Len(old) :
    new = SubSeq(old, 1, k) \o block \o SubSeq(old, k + 1, Len(old))

\* C28: back-pagination keeps the old copy.  Over any step of an attempt the
\* events of the room (store and memory, oldest first) stay where they are, in
\* the same order; a network attempt puts in, at one place and oldest first,
\* only events of its batch that were known neither in memory nor in the store;
\* the outcome it returns holds exactly the events it put in, none of them
\* known before.
C28_OldCopyKept ==
  [][\A p \in Procs :
       AttemptStep(p)
         => LET old == AllEvents(RoomChunks(chunks, disk))
                new == AllEvents(RoomChunks(chunks', disk'))
                unknown == NewOf(chunks, disk, resp[p].events)
                block == IF new = old THEN <<>> ELSE Reverse(unknown)
            IN /\ IsInsertion(old, new, block)
               /\ new # old => SplicesWith(p)
               /\ SplicesToOutcome(p)
                    => /\ out'[p].events = Reverse(block)
                       /\ \A i \in 1..Len(out'[p].events) :
                            ~Known(chunks, disk, out'[p].events[i])]_vars

\* A task is about to splice a batch of which one event is known and one is
\* not, and its Gap is still there.
C28_Witness ==
  /\ pc["p1"] = "splice" /\ tokres["p1"].kind = "HasMore"
  /\ GapsWith(chunks, tokres["p1"].tok) # {}
  /\ \E i, j \in 1..Len(resp["p1"].events) :
       /\ Known(chunks, disk, resp["p1"].events[i])
       /\ ~Known(chunks, disk, resp["p1"].events[j])

\* Task p, whose token acquisition yielded None, takes its step through the
\* writer-lock section after its network call.
NoTokenSplice(p) == SplicesWith(p) /\ tokres[p].kind = "None"

\* The block stands right before the oldest event cs held or, when cs held no
\* event, in a chunk pushed at the tail of cs.
PlacedBeforeOldest(cs, cs2, block) ==
  IF HasEvents(cs)
  THEN AllEvents(cs2) = block \o AllEvents(cs)
  ELSE /\ AllEvents(cs2) = block
       /\ block # <<>> => cs2[Len(cs2)] = ItemsChunk(block)

\* C29: an attempt whose token acquisition yielded None completes its step 4
\* with an outcome whatever the sync feeder or a reset did during the round
\* trip, and its kept events stand right before the oldest in-memory event, or
\* at the tail when memory held no event.
C29_NoTokenCompletes ==
  [][\A p \in Procs :
       NoTokenSplice(p)
         => /\ out'[p].kind = "outcome"
            /\ PlacedBeforeOldest(chunks, chunks', Reverse(out'[p].events))]_vars

\* The place of a LoginProgress in the order Starting, EstablishingSecureChannel,
\* WaitingForToken, Done.
ProgressRank(v) ==
  CASE v.name = "Starting" -> 0
    [] v.name = "EstablishingSecureChannel" -> 1
    [] v.name = "WaitingForToken" -> 2
    [] v.name = "Done" -> 3

\* C30: the progress of a QR login only moves forward through Starting,
\* EstablishingSecureChannel, WaitingForToken, Done.  Every value the login
\* sets is later in that order than the value it replaces, hence set at most
\* once; WaitingForToken is set in the step that received LoginProtocolAccepted
\* from the other device; the progress is Done exactly when the future has
\* returned Ok, and a step that returns an error leaves the progress as it was.
C30_ProgressForward ==
  [][/\ updates' # updates
        => /\ updates' = Append(updates, state')
           /\ ProgressRank(state') > ProgressRank(state)
           /\ \A i \in 1..Len(updates) :
                ProgressRank(updates[i]) < ProgressRank(state')
     /\ updates' = updates => state' = state
     /\ state'.name = "WaitingForToken" /\ state.name # "WaitingForToken"
        => /\ received_json' = Append(received_json, Message("LoginProtocolAccepted"))
           /\ state'.code = auth_grant_response
     /\ state'.name = "Done" <=> result'.kind = "Ok"
     /\ result'.kind = "Err" => state' = state]_vars

\* The login went through all four values and returned Ok.
C30_Witness ==
  /\ result = Ok /\ state = Done /\ Len(updates) = 3
  /\ updates[1].name = "EstablishingSecureChannel"
  /\ updates[2].name = "WaitingForToken"

\* The login receives a message at one of its two waits for the other device.
ReceivesAt(point) ==
  login_pc = point /\ Len(received_json') = Len(received_json) + 1

LastReceived == received_json[Len(received_json)]

\* The message a wait expects and the name the UnexpectedMessage error gives it.
ExpectedKind(point) ==
  IF point = "receive_protocol_answer" THEN "LoginProtocolAccepted" ELSE "LoginSecrets"

ExpectedName(point) ==
  IF point = "receive_protocol_answer"
  THEN "m.login.protocol_accepted" ELSE "m.login.secrets"

PeerWaits == {"receive_protocol_answer", "receive_secrets"}

\* The login has sent LoginFailure{UnexpectedMessageReceived} and nothing else.
ReportsUnexpected ==
  sent_json' = Append(sent_json, LoginFailure("UnexpectedMessageReceived"))

\* What a wait does with a LoginFailure, and what session tokens a failure at
\* the first wait leaves: common to C31 as stated and as amended.
PeerFailureHandled(point) ==
  /\ LastReceived'.kind = "LoginFailure"
       => /\ result' = ErrLoginFailure(LastReceived'.reason)
          /\ sent_json' = sent_json
  /\ point = "receive_protocol_answer" /\ result'.kind = "Err" => ~tokens_set'

\* C31 as stated: at both waits a LoginFailure fails the login with the peer's
\* reason and sends nothing; any other message than the expected one makes the
\* login send LoginFailure{UnexpectedMessageReceived} and fail with
\* UnexpectedMessage naming the expected type; a failure at the first wait
\* leaves the session tokens unset.
C31_Original ==
  [][\A point \in PeerWaits :
       ReceivesAt(point)
         => /\ PeerFailureHandled(point)
            /\ LastReceived'.kind \notin {"LoginFailure", ExpectedKind(point)}
                 => /\ ReportsUnexpected
                    /\ result' = ErrUnexpectedMessage(ExpectedName(point),
                                                      LastReceived')]_vars

\* C31, amended: as stated, except that after an unexpected message the login
\* fails with UnexpectedMessage only if its LoginFailure{UnexpectedMessageReceived}
\* could be sent; if that send fails, the login fails with the secure channel's
\* error and nothing was sent.
C31_PeerAnswers ==
  [][\A point \in PeerWaits :
       ReceivesAt(point)
         => /\ PeerFailureHandled(point)
            /\ LastReceived'.kind \notin {"LoginFailure", ExpectedKind(point)}
                 => \/ /\ ReportsUnexpected
                       /\ result' = ErrUnexpectedMessage(ExpectedName(point),
                                                         LastReceived')
                    \/ /\ sent_json' = sent_json
                       /\ result' = Err("SecureChannel")
            /\ LastReceived'.kind = ExpectedKind(point)
                 => result' = Pending /\ sent_json' = sent_json]_vars

\* The other device answered LoginDeclined instead of the secrets: the login
\* reported the unexpected message and failed naming m.login.secrets.
C31_Witness ==
  /\ result = ErrUnexpectedMessage("m.login.secrets", Message("LoginDeclined"))
  /\ sent_json[Len(sent_json)] = LoginFailure("UnexpectedMessageReceived")
  /\ tokens_set

\* The token request failed with e and the login has returned.
TokenRequestFails ==
  login_pc = "wait_for_tokens" /\ login_pc' = "returned"

\* What never happens when the token request fails, and what is sent for each
\* error: common to C32 as stated and as amended.
TokenFailureHandled ==
  /\ ~tokens_set'
  /\ \A i \in 1..Len(sent_json') : sent_json'[i].kind # "LoginSuccess"
  /\ result'.kind = "Err"
  /\ result'.error = "Oauth"
       => sent_json' =
            CASE result'.reason = "AccessDenied"
                   -> Append(sent_json, Message("LoginDeclined"))
              [] result'.reason = "ExpiredToken"
                   -> Append(sent_json, LoginFailure("AuthorizationExpired"))
              [] OTHER -> sent_json

\* C32 as stated: when waiting for the tokens fails the login returns the OAuth
\* error, sets no session tokens and sends no LoginSuccess; it has told the other
\* device LoginDeclined for access_denied, LoginFailure{AuthorizationExpired}
\* for expired_token and nothing for any other error.
C32_Original ==
  [][TokenRequestFails
       => TokenFailureHandled /\ result'.error = "Oauth"]_vars

\* C32, amended: as stated, except that when the LoginDeclined or LoginFailure
\* report cannot be sent the login returns the secure channel's error instead
\* of the OAuth error (and nothing was sent).
C32_TokenFailure ==
  [][TokenRequestFails
       => /\ TokenFailureHandled
          /\ \/ result'.error = "Oauth"
             \/ /\ result' = Err("SecureChannel")
                /\ sent_json' = sent_json]_vars

\* The server answered expired_token: the other device was told so and the
\* login returned the OAuth error.
C32_Witness ==
  /\ result = ErrOauth("ExpiredToken") /\ ~tokens_set
  /\ sent_json[Len(sent_json)] = LoginFailure("AuthorizationExpired")
  /\ state.name = "WaitingForToken"

\* C33: no precondition violation is reachable from back-pagination: whatever
\* the sync feeder and the resets do around an attempt, no `expect` of the
\* splice section fails, so no task ever stops inside with_events_mut.
C33_NoExpectFails == \A p \in Procs : pc[p] # "panicked"

\* Task p is inside get_or_wait_for_token.
InTokenCall(p) == pc[p] \in {"token_read", "waiting", "relock"}

\* C34: every call to get_or_wait_for_token eventually returns, whatever the
\* sync feeder does or does not do: the wait on the notifier ends by a
\* notification or by the timeout, and the lock acquisitions succeed.
C34_TokenCallReturns ==
  \A p \in Procs : InTokenCall(p) ~> (op[p] = "token" /\ pc[p] = "done")

\* A caller is waiting on the notifier, no notification is stored and the room
\* holds no Gap: only the timeout can end this wait.
C34_Witness ==
  /\ pc["p1"] = "waiting" /\ op["p1"] = "token" /\ ~permit /\ ~HasGap(chunks)

\* Task p is inside run_backwards_once.
InOnce(p) == op[p] = "once" /\ pc[p] \notin {"idle", "done"}

\* C35: run_backwards_once eventually returns provided the store and the
\* network calls return and only finitely many resets happen.
C35_OnceReturns == \A p \in {"p1"} : InOnce(p) ~> (pc[p] = "done")

\* Task p ends step 4 with an outcome after it located the Gap of its token.
SplicesAtGap(p) == SplicesToOutcome(p) /\ tokres[p].tok # NoToken

\* cs2 is cs with the chunk at place j taken out and, in its place, nothing,
\* a chunk of events, or a Gap followed by a chunk of events.
ChunkTakenOut(cs, cs2, j) ==
  LET n == Len(cs2) - Len(cs) + 1
  IN /\ n \in 0..2
     /\ SubSeq(cs2, 1, j - 1) = SubSeq(cs, 1, j - 1)
     /\ SubSeq(cs2, j + n, Len(cs2)) = SubSeq(cs, j + 1, Len(cs))
     /\ n >= 1 => ~cs2[j + n - 1].gap /\ cs2[j + n - 1].items # <<>>
     /\ n = 2 => cs2[j].gap

\* C36: a network attempt that located a prior Gap at step 4 and completes with
\* an outcome has removed that Gap: the located chunk is gone, whatever the
\* batch held (in its place stand nothing, the new events, or a new Gap and the
\* new events), all other chunks are as they were, and the number of Gaps has
\* not grown.
C36_PriorGapRemoved ==
  [][\A p \in Procs :
       SplicesAtGap(p)
         => LET gap_id == chunk_identifier(chunks, tokres[p].tok)
            IN /\ gap_id # NoId
               /\ ChunkTakenOut(chunks, chunks', gap_id)
               /\ TotalGaps(chunks') <= TotalGaps(chunks)
               /\ TotalGaps(chunks') >= TotalGaps(chunks) - 1]_vars

\* A fully duplicated batch: the Gap of the token is gone, nothing took its
\* place and the events of the room are those the sync feeder had pushed.
C36_Witness ==
  /\ pc["p1"] = "done" /\ out["p1"].via = "network" /\ out["p1"].token # NoToken
  /\ out["p1"].events = <<>> /\ ~out["p1"].hit_end
  /\ ~HasGap(chunks) /\ HasEvents(chunks) /\ paginator.prev # NoToken

\* The place of the newest Gap, from which get_or_wait_for_token reads.
NewestGapPlace(cs) ==
  CHOOSE i \in 1..Len(cs) : cs[i].gap /\ \A k \in i + 1..Len(cs) : ~cs[k].gap

\* Task p's get_or_wait_for_token returns a token it read from a Gap.
GetsTokenOfGap(p) == tokres'[p] # tokres[p] /\ tokres'[p].kind = "HasMore"

\* C37: the Gap an attempt replaces or removes at step 4 is the chunk its token
\* was read from at step 2.  Stated where the token is read: the newest Gap,
\* whose token the call returns, is the chunk that the lookup of step 4 (first
\* Gap with that token, in chunk order) finds in the same room.
C37_SameGap ==
  [][\A p \in Procs :
       GetsTokenOfGap(p)
         => chunk_identifier(chunks', tokres'[p].tok) = NewestGapPlace(chunks')]_vars

\* Task p re-arms the paginator with the token of its step 2 and sends its request.
SendsRequest(p) == pc[p] = "token_done" /\ pc'[p] = "net"

\* The number of Gaps the room has gained in the step of task p beyond the Gap
\* of the token of p, which an attempt that ends with an outcome has taken out.
GapsStoredBy(p) ==
  TotalGaps(chunks') - (TotalGaps(chunks) - (IF tokres[p].tok # NoToken THEN 1 ELSE 0))

\* C38: also when two back-paginations of the room overlap, the request of an
\* attempt carries the token the attempt got at step 2, and the new Gap of an
\* attempt carries the end token of the response of that attempt: an attempt
\* whose response came without an end token stores no new Gap.
C38_OwnTokens ==
  [][\A p \in Procs :
       /\ SendsRequest(p) => paginator'.prev = tokres[p].tok
       /\ SplicesToOutcome(p) /\ resp[p].hit_end => GapsStoredBy(p) = 0]_vars

\* The run_backwards_until call of task p returns Ok.
UntilReturns(p) ==
  /\ op[p] = "until" /\ pc[p] # "done"
  /\ pc'[p] = "done" /\ out'[p].kind = "outcome"

\* C39: every event a run_backwards_until call returns is in the LinkedChunks of
\* the room when the call returns, also when the room was cleared between the
\* attempts of the call.
C39_ReturnedEventsHeld ==
  [][\A p \in Procs :
       UntilReturns(p) => Range(Returned(p)'.events) \subseteq EventSet(chunks')]_vars

\* Task p takes a step of its call, whatever the step.
TaskStep(p) == pc'[p] # pc[p]

\* C40: waited_for_initial_prev_token goes from false to true only in the step
\* that ends the waiting path of a get_or_wait_for_token call; every other step
\* of a task, the return of a call that did not wait among them, leaves the flag
\* as it is, and the flag goes back to false in a reset only.
C40_FlagFrame ==
  [][/\ ~waited /\ waited' => \E p \in Procs : EndsWait(p) /\ didWait[p]
     /\ waited /\ ~waited' => Reset
     /\ \A p \in Procs :
          /\ TaskStep(p) /\ ~EndsWait(p) => waited' = waited
          /\ TaskStep(p) /\ ReturnedAtOnce(p) => waited' = waited
          /\ EndsWait(p) => (waited => waited')]_vars

\* The token acquisition of an attempt on the empty room has waited, has set the
\* flag and has returned None.
C40_Witness ==
  /\ pc["p1"] = "token_done" /\ op["p1"] = "once" /\ didWait["p1"]
  /\ waited /\ tokres["p1"] = TokNone /\ chunks = <<>>

====
